---- MODULE Spec2Model ----
(***************************************************************************)
(* Model of the ticket extraction / name reconciliation pipeline:          *)
(*   _1_ticket_automation_withoutapi.py  (classification, extraction)      *)
(*   _2_name_automation.py               (matching, suggest/commit)        *)
(*   server.py                           (HTTP entry points)               *)
(* Text is modelled as sequences of one-character strings so that the      *)
(* string operations of the code (upper, lower, substring test, regular    *)
(* expression substitution) are computed rather than assumed.              *)
(***************************************************************************)
EXTENDS Integers, Sequences, FiniteSets, TLC

VARIABLES
    inp,        \* argument handed to the pure function under check
    out,        \* value(s) it returned
    stage,      \* how many applications have been made
    tickets,    \* the ticket sheet: row index -> row (columns A..Q)
    master,     \* the Master sheet write blocks: entry index -> block -> cells
    wrote,      \* history: ticket cells / registry rows written by the last run
    lastOp,     \* history: the operation that produced this state
    nCommits,   \* history: per ticket row, runs that issued registry writes for it
    human,      \* history: per ticket row, a human wrote a non-empty approved name
    inv,        \* the invocations of step2_autofill_and_commit in flight
    folder,     \* the inbox folder of the Drive: the documents it lists
    store,      \* the ticket sheet as the ingestion sees it: the append calls made
    automation  \* WeddingTicketAutomation.run: position in the loop and its counters

vars ==
    <<inp, out, stage, tickets, master, wrote, lastOp, nCommits, human, inv,
      folder, store, automation>>

pureVars == <<inp, out, stage>>
flowVars == <<tickets, master, wrote, lastOp, nCommits, human, inv>>
ingestVars == <<folder, store, automation>>

-----------------------------------------------------------------------------
(* Characters and case conversion                                          *)

LowerLetters ==
    << "a","b","c","d","e","f","g","h","i","j","k","l","m",
       "n","o","p","q","r","s","t","u","v","w","x","y","z" >>

UpperLetters ==
    << "A","B","C","D","E","F","G","H","I","J","K","L","M",
       "N","O","P","Q","R","S","T","U","V","W","X","Y","Z" >>

Digits == { "0","1","2","3","4","5","6","7","8","9" }

Range(f) == { f[i] : i \in DOMAIN f }

IsUpperAZ(c) == c \in Range(UpperLetters)

IsLowerAZ(c) == c \in Range(LowerLetters)

\* \w of the re module: letters, digits and the underscore
IsWordChar(c) == IsUpperAZ(c) \/ IsLowerAZ(c) \/ c \in Digits \/ c = "_"

UpperChar(c) ==
    IF IsLowerAZ(c)
    THEN UpperLetters[CHOOSE i \in DOMAIN LowerLetters : LowerLetters[i] = c]
    ELSE c

LowerChar(c) ==
    IF IsUpperAZ(c)
    THEN LowerLetters[CHOOSE i \in DOMAIN UpperLetters : UpperLetters[i] = c]
    ELSE c

\* str.upper()
StrUpper(s) == [i \in DOMAIN s |-> UpperChar(s[i])]

\* str.lower()
StrLower(s) == [i \in DOMAIN s |-> LowerChar(s[i])]

\* the Python test  w in t  on strings
Contains(t, w) ==
    \E i \in 1..(Len(t) - Len(w) + 1) : SubSeq(t, i, i + Len(w) - 1) = w

\* all strings over alphabet A of length at most n
StringsUpTo(A, n) == UNION { [1..k -> A] : k \in 0..n }

-----------------------------------------------------------------------------
(* NameMatcher.normalize_name                                              *)

Honorifics ==
    { <<"K","R">>, <<"K","U","M","A","R">>, <<"D","E","V","I">>,
      <<"S","H","R","I">>, <<"S","M","T">>, <<"M","R">>, <<"M","R","S">>,
      <<"M","S">>, <<"M","I","S","S">>, <<"S","R","I">> }

\* last index of the maximal run of word characters starting at i
RECURSIVE RunEnd(_, _)
RunEnd(s, i) ==
    IF i < Len(s) /\ IsWordChar(s[i + 1]) THEN RunEnd(s, i + 1) ELSE i

\* re.sub(r"\b(KR|KUMAR|...)\b", "", name): a match is bounded by \b on both
\* sides and made of word characters, so it is a maximal run of word
\* characters that equals one of the alternatives.
RECURSIVE StripTitlesFrom(_, _)
StripTitlesFrom(s, i) ==
    IF i > Len(s) THEN <<>>
    ELSE IF ~IsWordChar(s[i]) THEN <<s[i]>> \o StripTitlesFrom(s, i + 1)
    ELSE LET j == RunEnd(s, i)
             run == SubSeq(s, i, j)
         IN (IF run \in Honorifics THEN <<>> ELSE run)
                \o StripTitlesFrom(s, j + 1)

StripTitles(s) == StripTitlesFrom(s, 1)

\* re.sub(r"[^A-Z ]", "", name)
KeepLetters(s) == SelectSeq(s, LAMBDA c : IsUpperAZ(c) \/ c = " ")

\* re.sub(r"\s+", " ", name).strip(), on a string of letters and spaces
RECURSIVE SqueezeFrom(_, _, _)
SqueezeFrom(s, i, prevSpace) ==
    IF i > Len(s) THEN <<>>
    ELSE IF s[i] = " "
         THEN (IF prevSpace THEN <<>> ELSE <<" ">>) \o SqueezeFrom(s, i + 1, TRUE)
         ELSE <<s[i]>> \o SqueezeFrom(s, i + 1, FALSE)

CollapseSpaces(s) ==
    LET q == SqueezeFrom(s, 1, TRUE)
    IN IF q # <<>> /\ q[Len(q)] = " " THEN SubSeq(q, 1, Len(q) - 1) ELSE q

normalize_name(name) ==
    IF name = <<>> THEN <<>>
    ELSE CollapseSpaces(KeepLetters(StripTitles(StrUpper(name))))

-----------------------------------------------------------------------------
(* PNRExtractor.detect_ticket_type                                         *)

non_ticket_words ==
    << <<"i","n","v","o","i","c","e">>,
       <<"b","i","l","l">>,
       <<"r","e","c","e","i","p","t">>,
       <<"b","u","y","e","r">>,
       <<"s","e","l","l","e","r">>,
       <<"g","s","t","i","n">>,
       <<"t","e","a"," ","s","t","o","r","e">> >>

ticket_words ==
    << <<"p","n","r">>,
       <<"t","r","a","i","n"," ","n","o">>,
       <<"p","a","s","s","e","n","g","e","r">>,
       <<"b","o","o","k","i","n","g">> >>

flight_kw ==
    << <<"i","n","d","i","g","o">>,
       <<"6","e">>,
       <<"f","l","i","g","h","t">>,
       <<"t","e","r","m","i","n","a","l">>,
       <<"c","h","e","c","k","-","i","n">>,
       <<"b","o","a","r","d","i","n","g"," ","p","a","s","s">>,
       <<"c","l","e","a","r","t","r","i","p">>,
       <<"m","a","k","e","m","y","t","r","i","p">>,
       <<"b","o","o","k","i","n","g"," ","c","o","n","f","i","r","m","e","d">> >>

train_kw ==
    << <<"i","r","c","t","c">>,
       <<"e","l","e","c","t","r","o","n","i","c"," ","r","e","s","e","r","v","a","t","i","o","n">>,
       <<"t","r","a","i","n"," ","n","o">>,
       <<"c","o","a","c","h">>,
       <<"b","e","r","t","h">>,
       <<"q","u","o","t","a">>,
       <<"v","a","n","a","n","c","h","a","l">>,
       <<"k","r","i","y","a"," ","y","o","g","a">>,
       <<"v","a","n","d","e"," ","b","h","a","r","a","t">>,
       <<"b","o","o","k","i","n","g"," ","i","d"," ",":"," ","t","k">>,
       <<"p","n","r"," ",":">>,
       <<"p","a","s","s","e","n","g","e","r"," ","s","t","a","t","u","s">>,
       <<"c","u","r","r","e","n","t"," ","s","t","a","t","u","s">> >>

\* any(word in t for word in words)
AnyIn(words, t) == \E i \in DOMAIN words : Contains(t, words[i])

\* sum(1 for kw in kws if kw in t)
Score(kws, t) == Cardinality({ i \in DOMAIN kws : Contains(t, kws[i]) })

\* mutant of detect_ticket_type: FLIGHT without the floor of 2 on its score
detect_ticket_type_nofloor(text) ==
    LET t == StrLower(text)
        flight_score == Score(flight_kw, t)
        train_score == Score(train_kw, t)
    IN IF AnyIn(non_ticket_words, t) /\ ~AnyIn(ticket_words, t) THEN "UNKNOWN"
       ELSE IF flight_score > train_score THEN "FLIGHT"
       ELSE IF train_score > 0 THEN "TRAIN"
       ELSE "UNKNOWN"

detect_ticket_type(text) ==
    LET t == StrLower(text)
        flight_score == Score(flight_kw, t)
        train_score == Score(train_kw, t)
    IN IF AnyIn(non_ticket_words, t) /\ ~AnyIn(ticket_words, t) THEN "UNKNOWN"
       ELSE IF flight_score > train_score /\ flight_score >= 2 THEN "FLIGHT"
       ELSE IF train_score > 0 THEN "TRAIN"
       ELSE "UNKNOWN"

-----------------------------------------------------------------------------
(* Cell values of the two sheets                                           *)

\* the empty cell / empty string
Empty == <<>>

COMMITTED == <<"C","O","M","M","I","T","T","E","D">>

DUPLICATE == <<"D","U","P","L","I","C","A","T","E">>

\* f"DUPLICATE: {matches[0]['raw']}"
DuplicateMarker(raw) == DUPLICATE \o <<":"," ">> \o raw

\* f"ERROR: '{approved_name}' not found"
NotFoundStatus(approved_name) ==
    <<"E","R","R","O","R",":"," ","'">> \o approved_name
        \o <<"'"," ","n","o","t"," ","f","o","u","n","d">>

\* A date cell.  fmt names the way the text is written:
\*   "ISO"   a-b-c  is  year-month-day       (TrainPNRAPI writes %Y-%m-%d)
\*   "SLASH" a/b/c  as found on a flight ticket
\*   "DMY"   a b c  is  day, month by name, year (13 Feb 2026)
\*   "MDY"   a/b/c  is  month/day/2-digit year (format_mmddyy's output)
\*   "BAD"   text no date can be read from;  "EMPTY" the empty cell
DateText(fmt, a, b, c) == [fmt |-> fmt, a |-> a, b |-> b, c |-> c]

EmptyDate == DateText("EMPTY", 0, 0, 0)

BadDate == DateText("BAD", 0, 0, 0)

DaysIn(m) == IF m = 2 THEN 28 ELSE IF m \in {4, 6, 9, 11} THEN 30 ELSE 31

ValidYMD(y, m, d) == m \in 1..12 /\ d >= 1 /\ d <= DaysIn(m)

\* dparser.parse(date_str, dayfirst=False).date(): ok = FALSE stands for the
\* exception.  A slash date reads month first unless only day-first is a date.
ParseDate(ds) ==
    CASE ds.fmt = "ISO" /\ ValidYMD(ds.a, ds.b, ds.c) ->
            [ok |-> TRUE, y |-> ds.a, m |-> ds.b, d |-> ds.c]
      [] ds.fmt = "DMY" /\ ValidYMD(ds.c, ds.b, ds.a) ->
            [ok |-> TRUE, y |-> ds.c, m |-> ds.b, d |-> ds.a]
      [] ds.fmt \in {"SLASH", "MDY"} /\ ValidYMD(ds.c, ds.a, ds.b) ->
            [ok |-> TRUE, y |-> ds.c, m |-> ds.a, d |-> ds.b]
      [] ds.fmt \in {"SLASH", "MDY"} /\ ~ValidYMD(ds.c, ds.a, ds.b)
            /\ ValidYMD(ds.c, ds.b, ds.a) ->
            [ok |-> TRUE, y |-> ds.c, m |-> ds.b, d |-> ds.a]
      [] OTHER -> [ok |-> FALSE, y |-> 0, m |-> 0, d |-> 0]

\* DEPARTURE_DATE = _date(2026, 2, 13)
DEPARTURE_DATE == [y |-> 2026, m |-> 2, d |-> 13]

\* mutant of DateGE: the cutoff day itself compares as earlier
DateGE_strict(p, q) ==
    \/ p.y > q.y
    \/ p.y = q.y /\ p.m > q.m
    \/ p.y = q.y /\ p.m = q.m /\ p.d > q.d

\* date.__ge__: lexicographic on (year, month, day)
DateGE(p, q) ==
    \/ p.y > q.y
    \/ p.y = q.y /\ p.m > q.m
    \/ p.y = q.y /\ p.m = q.m /\ p.d >= q.d

\* mutant of is_departure_date: a date that cannot be read counts as late
is_departure_date_unparsed(date_str) ==
    IF date_str = EmptyDate THEN FALSE
    ELSE LET dt == ParseDate(date_str)
         IN IF dt.ok THEN DateGE(dt, DEPARTURE_DATE) ELSE TRUE

\* DateHelper.is_departure_date
is_departure_date(date_str) ==
    IF date_str = EmptyDate THEN FALSE
    ELSE LET dt == ParseDate(date_str)
         IN IF dt.ok THEN DateGE(dt, DEPARTURE_DATE) ELSE FALSE

\* DateHelper.format_mmddyy
format_mmddyy(date_str) ==
    IF date_str = EmptyDate THEN EmptyDate
    ELSE LET dt == ParseDate(date_str)
         IN IF dt.ok THEN DateText("MDY", dt.m, dt.d, dt.y % 100) ELSE date_str

-----------------------------------------------------------------------------
(* NameMatcher.match_against_master                                        *)

MATCH_THRESHOLD == 85

\* SheetManager.read_master_names: the rows of Master!A2:D with a name, each
\* with its sheet row number (the first data row is row 2)
RECURSIVE MasterNamesFrom(_, _)
MasterNamesFrom(m, i) ==
    IF i > Len(m) THEN <<>>
    ELSE (IF m[i].raw # Empty
          THEN << [raw |-> m[i].raw, norm |-> normalize_name(m[i].raw),
                   row_no |-> i + 1] >>
          ELSE <<>>) \o MasterNamesFrom(m, i + 1)

read_master_names(m) == MasterNamesFrom(m, 1)

\* fuzz.partial_ratio / fuzz.token_sort_ratio of the rapidfuzz library: the
\* library's verdict for a ticket's name against a registry row is an input
\* carried by the ticket row (partial, token_sort: registry row -> 0..100)
partial_ratio(ticket, entry) == ticket.partial[entry.row_no - 1]

token_sort_ratio(ticket, entry) == ticket.token_sort[entry.row_no - 1]

Max(a, b) == IF a >= b THEN a ELSE b

final_score(ticket, entry) ==
    Max(partial_ratio(ticket, entry), token_sort_ratio(ticket, entry))

\* mutant of MatchesFrom: an entry is kept only above the threshold
RECURSIVE MatchesFrom_strict(_, _, _)
MatchesFrom_strict(ticket, master_names, i) ==
    IF i > Len(master_names) THEN <<>>
    ELSE LET e == master_names[i]
             sc == final_score(ticket, e)
         IN (IF sc > MATCH_THRESHOLD
             THEN << [raw |-> e.raw, row_no |-> e.row_no, score |-> sc] >>
             ELSE <<>>) \o MatchesFrom_strict(ticket, master_names, i + 1)

\* the loop of lines 68-76: the entries at or above the threshold, in
\* registry order, each with its score
RECURSIVE MatchesFrom(_, _, _)
MatchesFrom(ticket, master_names, i) ==
    IF i > Len(master_names) THEN <<>>
    ELSE LET e == master_names[i]
             sc == final_score(ticket, e)
         IN (IF sc >= MATCH_THRESHOLD
             THEN << [raw |-> e.raw, row_no |-> e.row_no, score |-> sc] >>
             ELSE <<>>) \o MatchesFrom(ticket, master_names, i + 1)

\* list.sort(key=score, reverse=True): stable, so equal scores keep their order
RECURSIVE InsertDesc(_, _)
InsertDesc(sorted, x) ==
    IF sorted = <<>> THEN <<x>>
    ELSE IF Head(sorted).score >= x.score
         THEN <<Head(sorted)>> \o InsertDesc(Tail(sorted), x)
         ELSE <<x>> \o sorted

RECURSIVE SortDesc(_)
SortDesc(ms) ==
    IF ms = <<>> THEN <<>>
    ELSE InsertDesc(SortDesc(SubSeq(ms, 1, Len(ms) - 1)), ms[Len(ms)])

RECURSIVE MaxScore(_)
MaxScore(ms) == IF ms = <<>> THEN 0 ELSE Max(Head(ms).score, MaxScore(Tail(ms)))

match_against_master(ticket, master_names) ==
    IF ticket.name = Empty \/ master_names = <<>>
    THEN [matches |-> <<>>, best_score |-> 0]
    ELSE LET ms == MatchesFrom(ticket, master_names, 1)
         IN [matches |-> SortDesc(ms), best_score |-> MaxScore(ms)]

-----------------------------------------------------------------------------
(* VerificationWorkflow.step1_match_and_suggest                            *)

\* mutant of Suggestion: the tie band is < 3 instead of <= 3
Suggestion_narrow(ticket, master_names) ==
    LET res == match_against_master(ticket, master_names)
        matches == res.matches
    IN IF Len(matches) > 1 /\ (matches[1].score - matches[2].score) < 3
       THEN [suggested |-> DuplicateMarker(matches[1].raw),
             score |-> res.best_score]
       ELSE IF Len(matches) >= 1
            THEN [suggested |-> matches[1].raw, score |-> res.best_score]
            ELSE [suggested |-> Empty, score |-> res.best_score]

\* lines 294-321: what write_match_result is called with for the row
Suggestion(ticket, master_names) ==
    LET res == match_against_master(ticket, master_names)
        matches == res.matches
    IN IF Len(matches) > 1
       THEN IF Len(matches) >= 2 /\ (matches[1].score - matches[2].score) <= 3
            THEN [suggested |-> DuplicateMarker(matches[1].raw),
                  score |-> res.best_score]
            ELSE [suggested |-> matches[1].raw, score |-> res.best_score]
       ELSE IF Len(matches) = 1
            THEN [suggested |-> matches[1].raw, score |-> res.best_score]
            ELSE [suggested |-> Empty, score |-> res.best_score]

\* lines 279-288: the rows step 1 leaves alone
Step1Skips(ticket) ==
    \/ ticket.commit_status = COMMITTED
    \/ ticket.mode = "ERROR"
    \/ ticket.name = Empty

\* one iteration of the loop of lines 275-321 (columns N and O of the row)
Step1Row(ticket, master_names) ==
    IF Step1Skips(ticket) THEN ticket
    ELSE LET sg == Suggestion(ticket, master_names)
         IN [ticket EXCEPT !.suggested = sg.suggested, !.score = <<sg.score>>]

-----------------------------------------------------------------------------
(* VerificationWorkflow.step2_autofill_and_commit                          *)

\* mutant of Phase1Fills: the duplicate marker is not looked for
Phase1Fills_nodup(ticket) ==
    /\ ticket.mode # "ERROR"
    /\ ticket.approved = Empty
    /\ ticket.suggested # Empty

\* mutant of Phase1Fills: the approved-name cell is not looked at
Phase1Fills_overwrite(ticket) ==
    /\ ticket.mode # "ERROR"
    /\ ~Contains(ticket.suggested, DUPLICATE)
    /\ ticket.suggested # Empty

\* lines 352-359: phase 1 writes the approved-name cell of this row
Phase1Fills(ticket) ==
    /\ ticket.mode # "ERROR"
    /\ ~Contains(ticket.suggested, DUPLICATE)
    /\ ticket.approved = Empty
    /\ ticket.suggested # Empty

\* the sheet after the write_approved_name calls of phase 1
AfterPhase1(ts) ==
    [r \in DOMAIN ts |->
        IF Phase1Fills(ts[r]) THEN [ts[r] EXCEPT !.approved = ts[r].suggested]
        ELSE ts[r]]

\* mutant of Phase2Skips: the COMMITTED guard is missing
Phase2Skips_noguard(ticket) ==
    \/ ticket.approved = Empty
    \/ ticket.mode = "ERROR"

\* mutant of Phase2Skips: the ERROR mode is not looked at
Phase2Skips_anymode(ticket) ==
    \/ ticket.approved = Empty
    \/ ticket.commit_status = COMMITTED

\* lines 391-397: the rows phase 2 skips
Phase2Skips(ticket) ==
    \/ ticket.approved = Empty
    \/ ticket.mode = "ERROR"
    \/ ticket.commit_status = COMMITTED

\* lines 400-404: index of the first registry entry whose name equals the
\* approved name ignoring case, 0 for None
RECURSIVE FindMatchFrom(_, _, _)
FindMatchFrom(master_names, approved_name, i) ==
    IF i > Len(master_names) THEN 0
    ELSE IF StrUpper(master_names[i].raw) = StrUpper(approved_name) THEN i
    ELSE FindMatchFrom(master_names, approved_name, i + 1)

\* mutant of FindMatch: a name found nowhere falls back to the first entry
FindMatch_fallback(master_names, approved_name) ==
    LET i == FindMatchFrom(master_names, approved_name, 1)
    IN IF i = 0 /\ master_names # <<>> THEN 1 ELSE i

FindMatch(master_names, approved_name) ==
    FindMatchFrom(master_names, approved_name, 1)

ArrivalCols == << "I", "J", "K", "L", "M", "N" >>

DepartureCols == << "AE", "AF", "AG", "AH", "AI", "AJ" >>

\* mutant of CommitUpdates: the time of the route is written without fallback
CommitUpdates_nofallback(r, ticket, master_row) ==
    LET is_departure == is_departure_date(ticket.journey_date)
        date_to_write ==
            IF is_departure THEN ticket.journey_date
            ELSE IF ticket.mode = "FLIGHT" THEN ticket.journey_date
            ELSE ticket.arrival_date
        time_value ==
            IF is_departure THEN ticket.departure_time ELSE ticket.arrival_time
        cols == IF is_departure THEN DepartureCols ELSE ArrivalCols
        vals == << format_mmddyy(date_to_write), ticket.mode, ticket.seat,
                   ticket.train_number, ticket.train_name, time_value >>
    IN [k \in 1..6 |->
          [col |-> cols[k], row |-> master_row, val |-> vals[k], by |-> r]]

\* mutant of CommitUpdates: the time always goes to column AJ
CommitUpdates_timecol(r, ticket, master_row) ==
    LET is_departure == is_departure_date(ticket.journey_date)
        date_to_write ==
            IF is_departure THEN ticket.journey_date
            ELSE IF ticket.mode = "FLIGHT" THEN ticket.journey_date
            ELSE ticket.arrival_date
        time_value ==
            IF is_departure
            THEN (IF ticket.departure_time # "" THEN ticket.departure_time
                  ELSE ticket.arrival_time)
            ELSE (IF ticket.arrival_time # "" THEN ticket.arrival_time
                  ELSE ticket.departure_time)
        cols == IF is_departure THEN DepartureCols
                ELSE << "I", "J", "K", "L", "M", "AJ" >>
        vals == << format_mmddyy(date_to_write), ticket.mode, ticket.seat,
                   ticket.train_number, ticket.train_name, time_value >>
    IN [k \in 1..6 |->
          [col |-> cols[k], row |-> master_row, val |-> vals[k], by |-> r]]

\* lines 419-458: the six range updates of one commit
CommitUpdates(r, ticket, master_row) ==
    LET is_departure == is_departure_date(ticket.journey_date)
        date_to_write ==
            IF is_departure THEN ticket.journey_date
            ELSE IF ticket.mode = "FLIGHT" THEN ticket.journey_date
            ELSE ticket.arrival_date
        time_value ==
            IF is_departure
            THEN (IF ticket.departure_time # "" THEN ticket.departure_time
                  ELSE ticket.arrival_time)
            ELSE (IF ticket.arrival_time # "" THEN ticket.arrival_time
                  ELSE ticket.departure_time)
        cols == IF is_departure THEN DepartureCols ELSE ArrivalCols
        vals == << format_mmddyy(date_to_write), ticket.mode, ticket.seat,
                   ticket.train_number, ticket.train_name, time_value >>
    IN [k \in 1..6 |->
          [col |-> cols[k], row |-> master_row, val |-> vals[k], by |-> r]]

\* lines 379-462: the two lists phase 2 builds from the reloaded sheet
RECURSIVE Phase2From(_, _, _)
Phase2From(ts, master_names, r) ==
    IF r > Len(ts) THEN [master_updates |-> <<>>, status_updates |-> <<>>]
    ELSE LET rest == Phase2From(ts, master_names, r + 1)
             t == ts[r]
             i == FindMatch(master_names, t.approved)
         IN IF Phase2Skips(t) THEN rest
            ELSE IF i = 0
            THEN [master_updates |-> rest.master_updates,
                  status_updates |->
                      << [row |-> r, status |-> NotFoundStatus(t.approved)] >>
                          \o rest.status_updates]
            ELSE [master_updates |->
                      CommitUpdates(r, t, master_names[i].row_no)
                          \o rest.master_updates,
                  status_updates |->
                      << [row |-> r, status |-> COMMITTED] >>
                          \o rest.status_updates]

Phase2(ts, master_names) == Phase2From(ts, master_names, 1)

\* SheetManager.batch_update_master: the ranges are written in list order
RECURSIVE batch_update_master(_, _)
batch_update_master(m, updates) ==
    IF updates = <<>> THEN m
    ELSE LET u == Head(updates)
         IN batch_update_master(
                [m EXCEPT ![u.row - 1].cells[u.col] = u.val], Tail(updates))

\* SheetManager.batch_update_commit_status: column Q of each listed row
RECURSIVE batch_update_commit_status(_, _)
batch_update_commit_status(ts, row_updates) ==
    IF row_updates = <<>> THEN ts
    ELSE LET u == Head(row_updates)
         IN batch_update_commit_status(
                [ts EXCEPT ![u.row].commit_status = u.status], Tail(row_updates))

-----------------------------------------------------------------------------
(* Bounds and input sets                                                   *)

\* rows of the ticket sheet
NumTickets == 1

\* registry rows in the matching specification
MaxMaster == 3

\* cap of the per-row history counter of registry writes
CountCap == 3

\* the two requests to /step2-commit that may overlap
Invocations == { "a", "b" }

\* registry names: "Aa", "Bb", "Cc", ...
MasterRaw(i) == << UpperLetters[i], LowerLetters[i] >>

\* a name no registry row carries
Unlisted == << "Z", "z" >>

Cols == Range(ArrivalCols) \cup Range(DepartureCols)

EmptyCell(col) == IF col \in {"I", "AE"} THEN EmptyDate ELSE ""

\* a Master row nothing was committed to yet
MasterRow(i) ==
    [raw |-> MasterRaw(i), place |-> "place", venue |-> "venue",
     cells |-> [c \in Cols |-> EmptyCell(c)]]

MasterSheet(n) == [i \in 1..n |-> MasterRow(i)]

\* a row as GoogleSheetsManager._append_train / _append_flight /
\* _append_error_row leave it: columns N..Q empty
TicketRow(mode, name, jd, dt, ad, at, partial, token_sort) ==
    [journey_date |-> jd, departure_time |-> dt, arrival_date |-> ad,
     arrival_time |-> at, mode |-> mode,
     seat |-> IF mode = "TRAIN" THEN "B1/23/LB" ELSE "",
     name |-> name,
     train_number |-> IF mode = "TRAIN" THEN "12345"
                      ELSE IF mode = "FLIGHT" THEN "6E 123" ELSE "",
     train_name |-> IF mode = "TRAIN" THEN "Vananchal"
                    ELSE IF mode = "FLIGHT" THEN "IndiGo" ELSE "",
     suggested |-> Empty, score |-> <<>>, approved |-> Empty,
     commit_status |-> Empty,
     partial |-> partial, token_sort |-> token_sort]

PassengerName == << "M","r"," ","A","a" >>

\* the rows of the workflow specification: one per outcome of the matching
\* (single match, near tie, clear winner, no match), a nameless row, an
\* ERROR row as _append_error_row leaves it, and an ERROR row into whose name
\* cell a reviewer has typed the passenger
Profiles ==
    { TicketRow("TRAIN", PassengerName, DateText("ISO", 2026, 2, 20), "16:25",
                DateText("ISO", 2026, 2, 21), "05:10", <<90, 40>>, <<70, 50>>),
      TicketRow("FLIGHT", PassengerName, DateText("SLASH", 10, 2, 2026), "09:00",
                EmptyDate, "11:30", <<92, 60>>, <<80, 90>>),
      TicketRow("TRAIN", PassengerName, DateText("ISO", 2026, 2, 10), "",
                DateText("ISO", 2026, 2, 11), "07:45", <<86, 95>>, <<50, 60>>),
      TicketRow("FLIGHT", PassengerName, DateText("ISO", 2026, 2, 13), "",
                EmptyDate, "", <<50, 60>>, <<40, 84>>),
      TicketRow("TRAIN", Empty, DateText("ISO", 2026, 2, 20), "16:25",
                BadDate, "", <<0, 0>>, <<0, 0>>),
      TicketRow("ERROR", Empty, EmptyDate, "", EmptyDate, "", <<0, 0>>, <<0, 0>>),
      TicketRow("ERROR", PassengerName, EmptyDate, "", EmptyDate, "",
                <<90, 40>>, <<70, 50>>) }

JourneyDates ==
    { EmptyDate, BadDate,
      DateText("ISO", 2025, 12, 25), DateText("ISO", 2026, 2, 10),
      DateText("ISO", 2026, 2, 12), DateText("ISO", 2026, 2, 13),
      DateText("ISO", 2026, 2, 20), DateText("ISO", 2027, 1, 5),
      DateText("SLASH", 10, 2, 2026), DateText("SLASH", 13, 2, 2026),
      DateText("DMY", 12, 2, 2026), DateText("DMY", 14, 2, 2026) }

\* the rows of the routing specification: a single registry match, every
\* journey date, both modes, every combination of present and absent times
RouteProfiles ==
    { TicketRow(mode, PassengerName, jd, dt,
                IF mode = "TRAIN" THEN DateText("ISO", 2026, 2, 11) ELSE EmptyDate,
                at, <<90, 40>>, <<70, 50>>) :
        mode \in {"TRAIN", "FLIGHT"}, jd \in JourneyDates,
        dt \in {"", "16:25"}, at \in {"", "05:10"} }

PartialScores == { 80, 85, 90, 92 }

TokenScores == { 70, 88 }

\* what a human may type into the approved-name cell (or clear it)
HumanNames == { Empty, StrLower(MasterRaw(1)), Unlisted }

IdleInvocation ==
    [pc |-> "idle", k |-> 0, master_names |-> <<>>, tickets |-> <<>>,
     master_updates |-> <<>>, status_updates |-> <<>>]

-----------------------------------------------------------------------------
(* Initial states                                                          *)

PureIdle == inp = <<>> /\ out = <<>> /\ stage = 0

\* no ingestion run was started: the locals of WeddingTicketAutomation.run
\* (runs counts the invocations, log keeps what was done with each document)
IdleRun ==
    [pc |-> "idle", files |-> <<>>, k |-> 0, success |-> 0, errors |-> 0,
     log |-> <<>>, runs |-> 0]

IngestIdle == folder = <<>> /\ store = <<>> /\ automation = IdleRun

FlowInit(ts, m) ==
    /\ tickets = ts
    /\ master = m
    /\ wrote = {}
    /\ lastOp = "init"
    /\ nCommits = [r \in DOMAIN ts |-> 0]
    /\ human = [r \in DOMAIN ts |-> FALSE]
    /\ inv = [i \in Invocations |-> IdleInvocation]

Init ==
    /\ PureIdle
    /\ IngestIdle
    /\ \E ts \in [1..NumTickets -> Profiles] : FlowInit(ts, MasterSheet(2))

InitRoute ==
    /\ PureIdle
    /\ IngestIdle
    /\ \E t \in RouteProfiles : FlowInit(<<t>>, MasterSheet(2))

InitMatch ==
    /\ PureIdle
    /\ IngestIdle
    /\ \E n \in 0..MaxMaster :
         \E p \in [1..n -> PartialScores], t \in [1..n -> TokenScores] :
            FlowInit(<< TicketRow("TRAIN", PassengerName,
                                  DateText("ISO", 2026, 2, 20), "16:25",
                                  DateText("ISO", 2026, 2, 21), "05:10", p, t) >>,
                     MasterSheet(n))

-----------------------------------------------------------------------------
(* History of a run                                                        *)

\* cells of the ticket sheet, as <<"T", ticket row, ticket row, column>>
TicketCell(r, col) == << "T", r, r, col >>

\* cells of the Master sheet written on behalf of ticket row u.by
MasterCell(u) == << "M", u.by, u.row, u.col >>

MasterCellsOf(updates) == { MasterCell(updates[j]) : j \in DOMAIN updates }

StatusCellsOf(row_updates) ==
    { TicketCell(row_updates[j].row, "Q") : j \in DOMAIN row_updates }

\* ticket rows a list of registry updates is on behalf of
RowsOf(updates) == { updates[j].by : j \in DOMAIN updates }

Bump(n) == IF n < CountCap THEN n + 1 ELSE n

Counted(updates) ==
    [r \in DOMAIN nCommits |->
        IF r \in RowsOf(updates) THEN Bump(nCommits[r]) ELSE nCommits[r]]

-----------------------------------------------------------------------------
(* Runs in sequence: each handler runs to completion                       *)

\* VerificationWorkflow.step1_match_and_suggest
Step1 ==
    LET master_names == read_master_names(master)
    IN /\ tickets' = [r \in DOMAIN tickets |-> Step1Row(tickets[r], master_names)]
       /\ wrote' = { TicketCell(r, c) :
                        r \in { q \in DOMAIN tickets : ~Step1Skips(tickets[q]) },
                        c \in {"N", "O"} }
       /\ lastOp' = "step1"
       /\ UNCHANGED <<master, nCommits, human, inv>>
       /\ UNCHANGED <<pureVars, ingestVars>>

\* VerificationWorkflow.step2_autofill_and_commit, no write failing
Step2 ==
    LET master_names == read_master_names(master)
        reloaded == AfterPhase1(tickets)
        plan == Phase2(reloaded, master_names)
    IN /\ master' = batch_update_master(master, plan.master_updates)
       /\ tickets' = batch_update_commit_status(reloaded, plan.status_updates)
       /\ wrote' = { TicketCell(r, "P") :
                        r \in { q \in DOMAIN tickets : Phase1Fills(tickets[q]) } }
                   \cup MasterCellsOf(plan.master_updates)
                   \cup StatusCellsOf(plan.status_updates)
       /\ nCommits' = Counted(plan.master_updates)
       /\ lastOp' = "step2"
       /\ UNCHANGED <<human, inv>>
       /\ UNCHANGED <<pureVars, ingestVars>>

\* the reviewer types into (or clears) the approved-name cell, column P,
\* between runs (run(), line 480; step 1's closing message, line 328)
EditApproved ==
    \E r \in DOMAIN tickets : \E v \in HumanNames :
       /\ v # tickets[r].approved
       /\ tickets' = [tickets EXCEPT ![r].approved = v]
       /\ human' = [human EXCEPT ![r] = human[r] \/ v # Empty]
       /\ wrote' = {}
       /\ lastOp' = "edit"
       /\ UNCHANGED <<master, nCommits, inv>>
       /\ UNCHANGED <<pureVars, ingestVars>>

Next == Step1 \/ Step2 \/ EditApproved

Spec == Init /\ [][Next]_vars

SpecRoute == InitRoute /\ [][Next]_vars

SpecMatch == InitMatch /\ [][Next]_vars

-----------------------------------------------------------------------------
(* Overlapping requests to /step2-commit (server.py run_step2): each       *)
(* request runs step2_autofill_and_commit in its own thread with its own   *)
(* VerificationWorkflow; a step is one call of the Sheets API together     *)
(* with the local computation that follows it.                             *)

\* lines 338-339: read_master_names() and read_ticket_sheet()
Begin(i) ==
    /\ inv[i].pc \in {"idle", "done"}
    /\ inv' = [inv EXCEPT ![i] =
                 [pc |-> "phase1", k |-> 1,
                  master_names |-> read_master_names(master),
                  tickets |-> tickets,
                  master_updates |-> <<>>, status_updates |-> <<>>]]
    /\ wrote' = {}
    /\ lastOp' = "begin"
    /\ UNCHANGED <<tickets, master, nCommits, human>>
    /\ UNCHANGED <<pureVars, ingestVars>>

\* lines 347-363: one iteration of the phase 1 loop, on the rows as read at
\* the start; write_approved_name goes to the sheet as it is now
Phase1Step(i) ==
    LET k == inv[i].k
        t == inv[i].tickets[k]
        fills == Phase1Fills(t)
    IN /\ inv[i].pc = "phase1"
       /\ tickets' = IF fills THEN [tickets EXCEPT ![k].approved = t.suggested]
                     ELSE tickets
       /\ inv' = [inv EXCEPT
                    ![i].tickets[k].approved =
                        IF fills THEN t.suggested ELSE t.approved,
                    ![i].k = k + 1,
                    ![i].pc = IF k = Len(inv[i].tickets) THEN "reload"
                              ELSE "phase1"]
       /\ wrote' = IF fills THEN { TicketCell(k, "P") } ELSE {}
       /\ lastOp' = "phase1"
       /\ UNCHANGED <<master, nCommits, human>>
       /\ UNCHANGED <<pureVars, ingestVars>>

\* lines 368-462: the reload and the phase 2 loop, which calls no API
Reload(i) ==
    LET plan == Phase2(tickets, inv[i].master_names)
    IN /\ inv[i].pc = "reload"
       /\ inv' = [inv EXCEPT ![i].tickets = tickets,
                             ![i].master_updates = plan.master_updates,
                             ![i].status_updates = plan.status_updates,
                             ![i].pc = "master"]
       /\ wrote' = {}
       /\ lastOp' = "reload"
       /\ UNCHANGED <<tickets, master, nCommits, human>>
       /\ UNCHANGED <<pureVars, ingestVars>>

\* lines 464-465
WriteMaster(i) ==
    /\ inv[i].pc = "master"
    /\ master' = batch_update_master(master, inv[i].master_updates)
    /\ nCommits' = Counted(inv[i].master_updates)
    /\ wrote' = MasterCellsOf(inv[i].master_updates)
    /\ inv' = [inv EXCEPT ![i].pc = "status"]
    /\ lastOp' = "master"
    /\ UNCHANGED <<tickets, human>>
    /\ UNCHANGED <<pureVars, ingestVars>>

\* lines 467-468
WriteStatus(i) ==
    /\ inv[i].pc = "status"
    /\ tickets' = batch_update_commit_status(tickets, inv[i].status_updates)
    /\ wrote' = StatusCellsOf(inv[i].status_updates)
    /\ inv' = [inv EXCEPT ![i] = [IdleInvocation EXCEPT !.pc = "done"]]
    /\ lastOp' = "status"
    /\ UNCHANGED <<master, nCommits, human>>
    /\ UNCHANGED <<pureVars, ingestVars>>

\* no request is being served
Quiet == \A i \in Invocations : inv[i].pc \in {"idle", "done"}

\* matching and manual review happen between requests
NextConc ==
    \/ Quiet /\ Step1
    \/ Quiet /\ EditApproved
    \/ \E i \in Invocations : Begin(i)
    \/ \E i \in Invocations : Phase1Step(i)
    \/ \E i \in Invocations : Reload(i)
    \/ \E i \in Invocations : WriteMaster(i)
    \/ \E i \in Invocations : WriteStatus(i)

SpecConc == Init /\ [][NextConc]_vars

-----------------------------------------------------------------------------
(* One request to step 2 whose batch writes may fail: the Sheets API call  *)
(* of batch_update_master or batch_update_commit_status raises, nothing in *)
(* step2_autofill_and_commit catches it, and the run ends there.  What a   *)
(* failed batch request has changed in the sheet is not known to the       *)
(* caller: any leading part of its ranges may have been applied.           *)

\* the ticket rows all six of whose registry ranges are in the list
WholeRows(updates) ==
    { r \in RowsOf(updates) :
        Cardinality({ j \in DOMAIN updates : updates[j].by = r }) = 6 }

\* mutant of WriteMasterFails: the exception is swallowed and the run goes on
WriteMasterFails_swallowed(i) ==
    /\ inv[i].pc = "master"
    /\ inv[i].master_updates # <<>>
    /\ \E k \in 0..Len(inv[i].master_updates) :
         \E applied \in { SubSeq(inv[i].master_updates, 1, k) } :
            /\ master' = batch_update_master(master, applied)
            /\ nCommits' = [r \in DOMAIN nCommits |->
                              IF r \in WholeRows(applied) THEN Bump(nCommits[r])
                              ELSE nCommits[r]]
            /\ wrote' = MasterCellsOf(applied)
    /\ inv' = [inv EXCEPT ![i].pc = "status"]
    /\ lastOp' = "master_failed"
    /\ UNCHANGED <<tickets, human>>
    /\ UNCHANGED <<pureVars, ingestVars>>

\* lines 464-465 with the request of batch_update_master (lines 219-225)
\* raising: the exception leaves step2_autofill_and_commit, line 468 is not
\* reached
WriteMasterFails(i) ==
    /\ inv[i].pc = "master"
    /\ inv[i].master_updates # <<>>
    /\ \E k \in 0..Len(inv[i].master_updates) :
         \E applied \in { SubSeq(inv[i].master_updates, 1, k) } :
            /\ master' = batch_update_master(master, applied)
            /\ nCommits' = [r \in DOMAIN nCommits |->
                              IF r \in WholeRows(applied) THEN Bump(nCommits[r])
                              ELSE nCommits[r]]
            /\ wrote' = MasterCellsOf(applied)
    /\ inv' = [inv EXCEPT ![i] = [IdleInvocation EXCEPT !.pc = "done"]]
    /\ lastOp' = "master_failed"
    /\ UNCHANGED <<tickets, human>>
    /\ UNCHANGED <<pureVars, ingestVars>>

\* lines 467-468 with the request of batch_update_commit_status (lines
\* 243-249) raising
WriteStatusFails(i) ==
    /\ inv[i].pc = "status"
    /\ inv[i].status_updates # <<>>
    /\ \E k \in 0..Len(inv[i].status_updates) :
         \E applied \in { SubSeq(inv[i].status_updates, 1, k) } :
            /\ tickets' = batch_update_commit_status(tickets, applied)
            /\ wrote' = StatusCellsOf(applied)
    /\ inv' = [inv EXCEPT ![i] = [IdleInvocation EXCEPT !.pc = "done"]]
    /\ lastOp' = "status_failed"
    /\ UNCHANGED <<master, nCommits, human>>
    /\ UNCHANGED <<pureVars, ingestVars>>

\* the request being served
Request == CHOOSE i \in Invocations : TRUE

\* matching happens between requests; the reviewer has typed before them
NextFail ==
    \/ Quiet /\ Step1
    \/ Begin(Request)
    \/ Phase1Step(Request)
    \/ Reload(Request)
    \/ WriteMaster(Request)
    \/ WriteMasterFails(Request)
    \/ WriteStatus(Request)
    \/ WriteStatusFails(Request)

\* rows of the ticket sheet: a train ticket after the cutoff and a flight
\* ticket before it, each with a single registry match, and a train ticket
\* for which the reviewer has typed a name the registry does not carry
FailProfiles ==
    { TicketRow("TRAIN", PassengerName, DateText("ISO", 2026, 2, 20), "16:25",
                DateText("ISO", 2026, 2, 21), "05:10", <<90, 40>>, <<70, 50>>),
      TicketRow("FLIGHT", PassengerName, DateText("SLASH", 10, 2, 2026), "09:00",
                EmptyDate, "11:30", <<50, 92>>, <<80, 60>>),
      [TicketRow("TRAIN", PassengerName, DateText("ISO", 2026, 2, 10), "",
                 DateText("ISO", 2026, 2, 11), "07:45", <<50, 60>>, <<40, 84>>)
          EXCEPT !.approved = Unlisted] }

InitFail ==
    /\ PureIdle
    /\ IngestIdle
    /\ \E t1 \in FailProfiles, t2 \in FailProfiles :
          /\ tickets = <<t1, t2>>
          /\ master = MasterSheet(2)
          /\ wrote = {}
          /\ lastOp = "init"
          /\ nCommits = [r \in DOMAIN <<t1, t2>> |-> 0]
          /\ human = [r \in DOMAIN <<t1, t2>> |-> <<t1, t2>>[r].approved # Empty]
          /\ inv = [i \in Invocations |-> IdleInvocation]

SpecFail == InitFail /\ [][NextFail]_vars

-----------------------------------------------------------------------------
(* Pure functions applied to bounded inputs                                *)

\* longest name handed to normalize_name
MaxNameLen == 4

\* most fragments in a transcript handed to detect_ticket_type
MaxFragments == 3

NameAlphabet == { "m", "M", "R", "S", "T", ".", "-", "1", " " }

Fragments ==
    << <<"P","N","R">>,
       <<"P","N","R"," ",":">>,
       <<"C","o","a","c","h">>,
       <<"b","e","r","t","h">>,
       <<"I","n","v","o","i","c","e">>,
       <<"B","i","l","l","i","n","g">>,
       <<"F","l","i","g","h","t">>,
       <<"6","E">>,
       <<"T","e","r","m","i","n","a","l">>,
       <<"B","o","o","k","i","n","g"," ","c","o","n","f","i","r","m","e","d">>,
       <<"h","e","l","l","o">> >>

\* the fragments chosen, one per line
RECURSIVE Transcript(_)
Transcript(fs) ==
    IF fs = <<>> THEN <<>>
    ELSE Fragments[Head(fs)] \o <<"\n">> \o Transcript(Tail(fs))

FlowIdle == FlowInit(<<>>, <<>>)

InitNorm ==
    /\ FlowIdle
    /\ IngestIdle
    /\ inp \in StringsUpTo(NameAlphabet, MaxNameLen)
    /\ out = <<>>
    /\ stage = 0

\* normalize_name applied to the input, then to each result in turn
Normalize ==
    /\ stage < 2
    /\ out' = Append(out, normalize_name(IF stage = 0 THEN inp ELSE out[stage]))
    /\ stage' = stage + 1
    /\ UNCHANGED inp
    /\ UNCHANGED <<flowVars, ingestVars>>

SpecNorm == InitNorm /\ [][Normalize]_vars

InitDetect ==
    /\ FlowIdle
    /\ IngestIdle
    /\ \E fs \in StringsUpTo(DOMAIN Fragments, MaxFragments) : inp = Transcript(fs)
    /\ out = <<>>
    /\ stage = 0

Detect ==
    /\ stage = 0
    /\ out' = << detect_ticket_type(inp) >>
    /\ stage' = 1
    /\ UNCHANGED inp
    /\ UNCHANGED <<flowVars, ingestVars>>

SpecDetect == InitDetect /\ [][Detect]_vars

-----------------------------------------------------------------------------
(* PNRExtractor.extract_pnr_from_text                                      *)

IsDigit(c) == c \in Digits

\* \s of the re module, on the characters a transcript is made of
IsSpace(c) == c \in { " ", "\n", "\t" }

IsAlnum(c) == IsUpperAZ(c) \/ IsLowerAZ(c) \/ IsDigit(c)

\* None, and a string returned
NoPnr == [found |-> FALSE, pnr |-> <<>>]

SomePnr(p) == [found |-> TRUE, pnr |-> p]

\* Body(v), with v evaluated once
With(v, Body(_)) == CHOOSE r \in { Body(x) : x \in { v } } : TRUE

\* the least number of a non-empty set of indices
Least(S) == With(S, LAMBDA T : CHOOSE k \in T : \A q \in T : k <= q)

\* first index at or after i that holds no whitespace
RECURSIVE SkipSpaces(_, _)
SkipSpaces(s, i) ==
    IF i <= Len(s) /\ IsSpace(s[i]) THEN SkipSpaces(s, i + 1) ELSE i

\* (?:\d\s+){9}\d tried at index i with n digits still to read: a digit and
\* a whitespace run cannot share a character, so the greedy \s+ never gives
\* one back
RECURSIVE SpacedAt(_, _, _)
SpacedAt(s, i, n) ==
    IF i > Len(s) \/ ~IsDigit(s[i]) THEN [ok |-> FALSE, digits |-> <<>>]
    ELSE IF n = 1 THEN [ok |-> TRUE, digits |-> << s[i] >>]
    ELSE LET j == SkipSpaces(s, i + 1)
             rest == SpacedAt(s, j, n - 1)
         IN IF j > i + 1 /\ rest.ok
            THEN [ok |-> TRUE, digits |-> << s[i] >> \o rest.digits]
            ELSE [ok |-> FALSE, digits |-> <<>>]

\* extract_spaced_pnr: re.findall scans from the left, and every match holds
\* ten digits once its whitespace is removed, so the first match is returned
SpacedFrom(s, i) ==
    LET starts == { k \in i..Len(s) : SpacedAt(s, k, 10).ok }
    IN IF starts = {} THEN NoPnr
       ELSE SomePnr(SpacedAt(s, Least(starts), 10).digits)

extract_spaced_pnr(text) == SpacedFrom(text, 1)

\* first index at or after i that holds none of  : = whitespace
RECURSIVE SkipLabelSeparators(_, _)
SkipLabelSeparators(s, i) ==
    IF i <= Len(s) /\ (s[i] \in { ":", "=" } \/ IsSpace(s[i]))
    THEN SkipLabelSeparators(s, i + 1) ELSE i

\* first index at or after i that holds no letter or digit
RECURSIVE AlnumEnd(_, _)
AlnumEnd(s, i) ==
    IF i <= Len(s) /\ IsAlnum(s[i]) THEN AlnumEnd(s, i + 1) ELSE i

\* PNR[:=\s]*([A-Z0-9]{lo,hi})\b with re.IGNORECASE tried at index i: the
\* group is followed by \b, so it is the whole run of letters and digits,
\* which must be lo to hi long and not be followed by an underscore
LabelledAt(s, i, lo, hi) ==
    IF i + 2 > Len(s) \/ StrUpper(SubSeq(s, i, i + 2)) # << "P", "N", "R" >>
    THEN NoPnr
    ELSE LET j == SkipLabelSeparators(s, i + 3)
             e == AlnumEnd(s, j)
         IN IF e - j >= lo /\ e - j <= hi /\ (e > Len(s) \/ s[e] # "_")
            THEN SomePnr(SubSeq(s, j, e - 1))
            ELSE NoPnr

\* re.search: the leftmost index the pattern matches at
LabelledFrom(s, i, lo, hi) ==
    LET starts == { k \in i..Len(s) : LabelledAt(s, k, lo, hi).found }
    IN IF starts = {} THEN NoPnr ELSE LabelledAt(s, Least(starts), lo, hi)

\* \b\d{10}\b matches at index i
BareAt(s, i) ==
    /\ i + 9 <= Len(s)
    /\ \A k \in i..(i + 9) : IsDigit(s[k])
    /\ (i = 1 \/ ~IsWordChar(s[i - 1]))
    /\ (i + 9 = Len(s) \/ ~IsWordChar(s[i + 10]))

ExcludedPrefixes ==
    { << "2", "0", "1" >>, << "2", "0", "2" >>, << "2", "0", "3" >>,
      << "9", "8", "2" >>, << "1", "0", "0" >> }

\* c.startswith(("201", "202", "203", "982", "100"))
HasExcludedPrefix(c) == SubSeq(c, 1, 3) \in ExcludedPrefixes

\* re.findall(r"\b\d{10}\b", text) without the excluded candidates, in order
\* (two matches cannot overlap: each is bounded by \b on both sides)
RECURSIVE BareCandidatesFrom(_, _)
BareCandidatesFrom(s, i) ==
    LET starts == { k \in i..Len(s) : BareAt(s, k) }
        k == Least(starts)
    IN IF starts = {} THEN <<>>
       ELSE (IF HasExcludedPrefix(SubSeq(s, k, k + 9)) THEN <<>>
             ELSE << SubSeq(s, k, k + 9) >>) \o BareCandidatesFrom(s, k + 10)

\* mutant of extract_pnr_from_text: the labelled token is looked for first
extract_pnr_from_text_labelfirst(text) ==
    LET spaced == extract_spaced_pnr(text)
        m == LabelledFrom(text, 1, 6, 10)
        candidates == BareCandidatesFrom(text, 1)
    IN IF m.found THEN SomePnr(StrUpper(m.pnr))
       ELSE IF spaced.found /\ spaced.pnr # <<>> THEN spaced
       ELSE IF candidates # <<>> THEN SomePnr(candidates[1])
       ELSE NoPnr

extract_pnr_from_text(text) ==
    LET spaced == extract_spaced_pnr(text)
        m == LabelledFrom(text, 1, 6, 10)
        candidates == BareCandidatesFrom(text, 1)
    IN IF spaced.found /\ spaced.pnr # <<>> THEN spaced
       ELSE IF m.found THEN SomePnr(StrUpper(m.pnr))
       ELSE IF candidates # <<>> THEN SomePnr(candidates[1])
       ELSE NoPnr

\* the chosen lines of a list, each ended by a newline
RECURSIVE JoinLines(_, _)
JoinLines(lines, fs) ==
    IF fs = <<>> THEN <<>>
    ELSE lines[Head(fs)] \o << "\n" >> \o JoinLines(lines, Tail(fs))

\* most lines of a transcript handed to extract_pnr_from_text
MaxPnrLines == 2

PnrLines ==
    << <<"6"," ","5"," ","6"," ","2"," ","5"," ","2"," ","6"," ","4"," ","9"," ","6">>,
       <<"P","N","R",":"," ","A","B","1","2","C","D">>,
       <<"2","0","2","6","0","2","1","3","9","9">>,
       <<"8","1","2","3","4","5","6","7","8","9">>,
       <<"p","n","r","=","a","b","1","2","c">>,
       <<"P","N","R"," ","N","o"," ","4","5","1","2","3","4","5","6","7","8">>,
       <<"P","N","R",":","A","B","C","D","E","F","G","H","I","J","K">>,
       <<"R","s"," ","1","5","0","0">>,
       <<"9","8","2","0","0","1","2","3","4","5"," ","7","1","2","3","4","5","6","7","8","0">>,
       <<"I","D","_","6","1","2","3","4","5","6","7","8","9">>,
       <<"1"," ","2"," ","3"," ","4"," ","5">>,
       <<"6"," ","7"," "," ","8"," ","9"," ","0">>,
       <<"P","n","r"," ","="," ","x","y","9","8","z","w","7","7","_">> >>

InitPnr ==
    /\ FlowIdle
    /\ IngestIdle
    /\ \E fs \in StringsUpTo(DOMAIN PnrLines, MaxPnrLines) :
          inp = JoinLines(PnrLines, fs)
    /\ out = <<>>
    /\ stage = 0

ExtractPnr ==
    /\ stage = 0
    /\ out' = << extract_pnr_from_text(inp) >>
    /\ stage' = 1
    /\ UNCHANGED inp
    /\ UNCHANGED <<flowVars, ingestVars>>

SpecPnr == InitPnr /\ [][ExtractPnr]_vars

-----------------------------------------------------------------------------
(* PNRExtractor.extract_train_passengers and _clean_ocr_name               *)

\* str.splitlines(), on text whose only line break is the newline
RECURSIVE SplitLines(_)
SplitLines(s) ==
    IF s = <<>> THEN <<>>
    ELSE LET brk == { i \in DOMAIN s : s[i] = "\n" }
             e == IF brk = {} THEN Len(s) + 1
                  ELSE CHOOSE i \in brk : \A q \in brk : i <= q
         IN << SubSeq(s, 1, e - 1) >> \o SplitLines(SubSeq(s, e + 1, Len(s)))

\* re.sub(r"\s+", " ", l.strip())
CleanLine(l) ==
    CollapseSpaces([i \in DOMAIN l |-> IF IsSpace(l[i]) THEN " " ELSE l[i]])

\* line 185: the non-blank lines, stripped, whitespace runs made one space
TranscriptLines(text) ==
    LET ls == SplitLines(text)
        cleaned == [i \in DOMAIN ls |-> CleanLine(ls[i])]
    IN SelectSeq(cleaned, LAMBDA l : l # <<>>)

BLOCKLIST ==
    { <<"C","H","E","C","K"," ","T","I","M","I","N","G","S">>, <<"P","A","S","S","E","N","G","E","R"," ","D","E","T","A","I","L","S">>, <<"E","L","E","C","T","R","O","N","I","C"," ","R","E","S","E","R","V","A","T","I","O","N">>,
      <<"B","O","O","K","E","D"," ","F","R","O","M">>, <<"B","O","A","R","D","I","N","G"," ","A","T">>, <<"T","R","A","N","S","A","C","T","I","O","N"," ","I","D">>, <<"A","C","R","O","N","Y","M","S">>,
      <<"N","A","M","E">>, <<"A","G","E">>, <<"G","E","N","D","E","R">>, <<"B","O","O","K","I","N","G"," ","S","T","A","T","U","S">>, <<"C","U","R","R","E","N","T"," ","S","T","A","T","U","S">>,
      <<"P","A","S","S","E","N","G","E","R"," ","S","T","A","T","U","S">>, <<"C","O","A","C","H">>, <<"S","E","A","T">>, <<"B","E","R","T","H">>,
      <<"C","H","A","R","T"," ","N","O","T"," ","P","R","E","P","A","R","E","D">>, <<"C","A","T","E","R","I","N","G"," ","S","E","R","V","I","C","E">> }

BAD_WORDS ==
    { <<"C","O","N","F","I","R","M","E","D">>, <<"A","V","A","I","L","A","B","L","E">>, <<"B","O","O","K","I","N","G">>, <<"S","T","A","T","U","S">>, <<"P","A","S","S","E","N","G","E","R">>,
      <<"O","P","T","I","O","N">> }

IsLetter(c) == IsUpperAZ(c) \/ IsLowerAZ(c)

\* str.title() on letters and spaces: a letter after a non-letter is
\* upper-cased, every other letter lower-cased
Title(s) ==
    [i \in DOMAIN s |->
        IF i = 1 \/ ~IsLetter(s[i - 1]) THEN UpperChar(s[i]) ELSE LowerChar(s[i])]

\* re.findall(r'[A-Z][a-z]+', name)
RECURSIVE CapitalisedWords(_, _)
CapitalisedWords(s, i) ==
    IF i >= Len(s) THEN <<>>
    ELSE IF IsUpperAZ(s[i]) /\ IsLowerAZ(s[i + 1])
         THEN LET stops == { k \in (i + 1)..Len(s) : ~IsLowerAZ(s[k]) }
                  e == IF stops = {} THEN Len(s) + 1
                       ELSE CHOOSE k \in stops : \A q \in stops : k <= q
              IN << SubSeq(s, i, e - 1) >> \o CapitalisedWords(s, e)
         ELSE CapitalisedWords(s, i + 1)

\* " ".join(parts)
RECURSIVE JoinWords(_)
JoinWords(parts) ==
    IF parts = <<>> THEN <<>>
    ELSE IF Len(parts) = 1 THEN parts[1]
    ELSE parts[1] \o << " " >> \o JoinWords(Tail(parts))

\* PNRExtractor._clean_ocr_name; the empty string is the rejection
clean_ocr_name(raw_name) ==
    LET fixed == [i \in DOMAIN raw_name |->
                    IF raw_name[i] \in { "!", "|" } THEN "I" ELSE raw_name[i]]
        name == CleanLine(fixed)
        parts == CapitalisedWords(name, 1)
    IN IF (\E i \in DOMAIN name : IsDigit(name[i])) \/ Len(name) < 3 THEN <<>>
       ELSE IF \E bad \in BAD_WORDS : Contains(StrUpper(name), bad) THEN <<>>
       ELSE IF (\A i \in DOMAIN name : name[i] # " ") /\ Len(name) > 8
            THEN (IF Len(parts) >= 2 THEN JoinWords(parts) ELSE Title(name))
       ELSE Title(name)

\* first index at or after i that holds no digit
RECURSIVE DigitEnd(_, _)
DigitEnd(s, i) ==
    IF i <= Len(s) /\ IsDigit(s[i]) THEN DigitEnd(s, i + 1) ELSE i

NoGroup == [ok |-> FALSE, name |-> <<>>]

\* s, from index i on, reads as kw ignoring case
ReadsAt(s, i, kw) ==
    i + Len(kw) - 1 <= Len(s) /\ StrUpper(SubSeq(s, i, i + Len(kw) - 1)) = kw

\* pattern 1 (lines 195-198, re.IGNORECASE) on a cleaned line, where every
\* \s+ is one space:  ^\d+\.\s+(name)\s+(\d{1,3})\s+([MFmf|I])\s+[\|\s]*(CNF|WL|RAC|VEG)
\* The name holds no digit, so the lazy group ends right before the space
\* that precedes the first character outside its class.
IrctcGroup(line) ==
    LET d == DigitEnd(line, 1)
        a == d + 2
        InName(c) == IsLetter(c) \/ c \in { "!", "|", " " }
        outs == { k \in a..Len(line) : ~InName(line[k]) }
        e == IF outs = {} THEN Len(line) + 1
             ELSE CHOOSE k \in outs : \A q \in outs : k <= q
        f == DigitEnd(line, e)
        pipes == { k \in (f + 3)..Len(line) : line[k] \notin { "|", " " } }
        w == IF pipes = {} THEN Len(line) + 1
             ELSE CHOOSE k \in pipes : \A q \in pipes : k <= q
    IN IF /\ d > 1 /\ d + 2 <= Len(line)
          /\ line[d] = "." /\ line[d + 1] = " "
          /\ line[a] # " "
          /\ e <= Len(line) /\ IsDigit(line[e]) /\ line[e - 1] = " "
          /\ e - 2 >= a + 1
          /\ f - e <= 3
          /\ f + 2 <= Len(line)
          /\ line[f] = " "
          /\ UpperChar(line[f + 1]) \in { "M", "F", "I", "|" }
          /\ line[f + 2] = " "
          /\ \E kw \in { <<"C","N","F">>, <<"W","L">>, <<"R","A","C">>, <<"V","E","G">> } : ReadsAt(line, w, kw)
       THEN [ok |-> TRUE, name |-> SubSeq(line, a, e - 2)]
       ELSE NoGroup

\* pattern 2 (lines 207-210, re.IGNORECASE) on a cleaned line:
\*   ^\d+\.\s+([A-Z][A-Za-z\s]+?),\s*(\d{1,3})\s*,\s*([MF])\s*$
IxigoGroup(line) ==
    LET d == DigitEnd(line, 1)
        a == d + 2
        outs == { k \in a..Len(line) : ~(IsLetter(line[k]) \/ line[k] = " ") }
        c == IF outs = {} THEN Len(line) + 1
             ELSE CHOOSE k \in outs : \A q \in outs : k <= q
        Opt(i) == IF i <= Len(line) /\ line[i] = " " THEN i + 1 ELSE i
        e == Opt(c + 1)
        f == DigitEnd(line, e)
        g == Opt(f)
        h == Opt(g + 1)
    IN IF /\ d > 1 /\ d + 2 <= Len(line)
          /\ line[d] = "." /\ line[d + 1] = " "
          /\ IsLetter(line[a])
          /\ c <= Len(line) /\ line[c] = "," /\ c - 1 >= a + 1
          /\ f - e >= 1 /\ f - e <= 3
          /\ g <= Len(line) /\ line[g] = ","
          /\ h = Len(line) /\ UpperChar(line[h]) \in { "M", "F" }
       THEN [ok |-> TRUE, name |-> SubSeq(line, a, c - 1)]
       ELSE NoGroup

\* pattern 3 (lines 219-223): ^[A-Z][A-Z\s]{3,40}$ and every word of two
\* letters or more
AppGroup(line) ==
    LET longWord(i) ==
            \/ (i > 1 /\ line[i - 1] # " ")
            \/ (i < Len(line) /\ line[i + 1] # " ")
    IN IF /\ Len(line) >= 4 /\ Len(line) <= 41
          /\ IsUpperAZ(line[1])
          /\ \A i \in DOMAIN line : IsUpperAZ(line[i]) \/ line[i] = " "
          /\ \A i \in DOMAIN line : line[i] # " " => longWord(i)
       THEN [ok |-> TRUE, name |-> line]
       ELSE NoGroup

\* one iteration of the loop of lines 187-228: the cleaned name the line
\* offers, the empty string if it offers none
LineName(line) ==
    IF \E b \in BLOCKLIST : Contains(StrUpper(line), b) THEN <<>>
    ELSE IF Len(line) < 4 THEN <<>>
    ELSE IF IrctcGroup(line).ok THEN clean_ocr_name(IrctcGroup(line).name)
    ELSE IF IxigoGroup(line).ok THEN clean_ocr_name(IxigoGroup(line).name)
    ELSE IF AppGroup(line).ok THEN clean_ocr_name(AppGroup(line).name)
    ELSE <<>>

\* the list  names  after the lines from i on; lines 201, 213 and 225 test
\* raw_name not in names  before names.append when dedup is set
RECURSIVE NamesFrom(_, _, _, _)
NamesFrom(lines, i, names, dedup) ==
    IF i > Len(lines) THEN names
    ELSE LET raw_name == LineName(lines[i])
             listed == \E k \in DOMAIN names : names[k] = raw_name
         IN NamesFrom(lines, i + 1,
                      IF raw_name # <<>> /\ (dedup => ~listed)
                      THEN Append(names, raw_name) ELSE names,
                      dedup)

\* mutant of extract_train_passengers: a name already listed is appended again
extract_train_passengers_nodedup(text) ==
    NamesFrom(TranscriptLines(text), 1, <<>>, FALSE)

extract_train_passengers(text) ==
    NamesFrom(TranscriptLines(text), 1, <<>>, TRUE)

\* most lines of a transcript handed to extract_train_passengers
MaxPaxLines == 3

PaxLines ==
    << <<"1","."," ","A","N","!","L"," ","K","U","M","A","R"," ","4","5"," ","M"," ","|"," ","C","N","F">>,
       <<"2","."," ","a","n","i","l"," "," ","k","u","m","a","r"," ","4","5"," ","m"," ","C","N","F">>,
       <<"1","."," ","S","o","n","a","l"," ","J","a","i","n",","," ","3","0",","," ","F">>,
       <<" ","S","O","N","A","L","\t","J","A","I","N"," ">>,
       <<"P","A","S","S","E","N","G","E","R"," ","D","E","T","A","I","L","S">>,
       <<"4","."," ","R","a","v","i","S","h","a","n","k","a","r","R","a","o"," ","5","0"," ","M"," ","R","A","C">>,
       <<"5","."," ","B","O","O","K","I","N","G"," ","O","P","T","I","O","N"," ","1"," ","M"," ","C","N","F">> >>

InitPax ==
    /\ FlowIdle
    /\ IngestIdle
    /\ \E fs \in StringsUpTo(DOMAIN PaxLines, MaxPaxLines) :
          inp = JoinLines(PaxLines, fs)
    /\ out = <<>>
    /\ stage = 0

ExtractPassengers ==
    /\ stage = 0
    /\ out' = << extract_train_passengers(inp) >>
    /\ stage' = 1
    /\ UNCHANGED inp
    /\ UNCHANGED <<flowVars, ingestVars>>

SpecPax == InitPax /\ [][ExtractPassengers]_vars

-----------------------------------------------------------------------------
(* TrainPNRAPI and TicketProcessor.process_train                           *)

\* the value of the key 'error': None, or a message (some end with a value)
NoError == [msg |-> "", about |-> <<>>]

Error(msg, about) == [msg |-> msg, about |-> about]

\* a dict key that is not there
Absent == << "<", "a", "b", "s", "e", "n", "t", ">" >>

AbsentNo == -1

\* d.get(key, default), for a text and for a number
Get(v, default) == IF v = Absent THEN default ELSE v

GetNo(n, default) == IF n = AbsentNo THEN default ELSE n

DigitChars == << "0", "1", "2", "3", "4", "5", "6", "7", "8", "9" >>

\* str(n) and {n} in an f-string, for a natural number
RECURSIVE ToStr(_)
ToStr(n) ==
    IF n < 10 THEN << DigitChars[n + 1] >>
    ELSE ToStr(n \div 10) \o << DigitChars[(n % 10) + 1] >>

\* a record with every key the two processors and the sheet manager read;
\* a key a dict does not carry reads as its .get default
TicketData(mode, error, filename) ==
    [mode |-> mode, error |-> error, filename |-> filename, pnr |-> <<>>,
     passengers |-> <<>>, number |-> <<>>, carrier |-> <<>>,
     journey_date |-> EmptyDate, departure_time |-> <<>>,
     arrival_date |-> EmptyDate, arrival_time |-> <<>>, raised |-> FALSE]

\* what requests.get(...) and response.json() give check_train_pnr:
\*   kind "exception"  the call raised (transport failure, timeout, bad JSON)
\*   kind "status"     a status code other than 200
\*   kind "payload"    200 and a JSON object;  body = FALSE is the object {}
Lookup(kind, body, success, data, pnrNumber, dateOfJourney, arrivalDate, passengerList) ==
    [kind |-> kind, body |-> body, success |-> success, data |-> data,
     pnrNumber |-> pnrNumber, trainNumber |-> << "1", "2", "3", "4", "5" >>,
     trainName |-> << "V", "a", "n", "a", "n", "c", "h", "a", "l" >>,
     dateOfJourney |-> dateOfJourney, arrivalDate |-> arrivalDate,
     passengerList |-> passengerList]

\* a date-and-time text of the payload: the date it names, and its time of
\* day as %H:%M prints it (empty if it names none)
Stamp(date, clock) == [date |-> date, clock |-> clock]

NoStamp == Stamp(EmptyDate, <<>>)

NoLookup(kind) == Lookup(kind, FALSE, FALSE, FALSE, Absent, NoStamp, NoStamp, <<>>)

\* TrainPNRAPI.check_train_pnr: the payload, or None (body = FALSE with kind
\* other than "payload")
check_train_pnr(lookup) ==
    IF lookup.kind = "payload" THEN lookup ELSE NoLookup("none")

\* lines 455-493: date and time cells read from one date-and-time text
\* (dparser.parse, strftime; the raw text and a regex on the except path)
ReadStamp(stamp) ==
    IF stamp.date = EmptyDate THEN [date |-> EmptyDate, time |-> <<>>]
    ELSE LET dt == ParseDate(stamp.date)
         IN IF dt.ok
            THEN [date |-> DateText("ISO", dt.y, dt.m, dt.d),
                  time |-> IF stamp.clock = <<>>
                           THEN << "0", "0", ":", "0", "0" >> ELSE stamp.clock]
            ELSE [date |-> stamp.date, time |-> stamp.clock]

\* mutant of PassengersOf: the extracted names are taken one place late
PassengersOf_shifted(passenger_list, passenger_names) ==
    [idx \in DOMAIN passenger_list |->
        LET p == passenger_list[idx]
        IN [name |-> IF passenger_names # <<>> /\ idx + 1 <= Len(passenger_names)
                     THEN passenger_names[idx + 1]
                     ELSE << "P","a","s","s","e","n","g","e","r"," " >> \o ToStr(idx),
            coach |-> Get(p.currentCoachId, Get(p.bookingCoachId, <<>>)),
            seat |-> LET n == GetNo(p.currentBerthNo, p.bookingBerthNo)
                     IN IF n = AbsentNo THEN << "0" >> ELSE ToStr(n),
            berth |-> Get(p.currentBerthCode, Get(p.bookingBerthCode, <<>>)),
            status |-> Get(p.currentStatusDetails, <<>>)]]

\* lines 496-508; sequences start at 1, so the list index idx of the code is
\* idx - 1 here and f"Passenger {idx+1}" is numbered idx
PassengersOf(passenger_list, passenger_names) ==
    [idx \in DOMAIN passenger_list |->
        LET p == passenger_list[idx]
        IN [name |-> IF passenger_names # <<>> /\ idx <= Len(passenger_names)
                     THEN passenger_names[idx]
                     ELSE << "P","a","s","s","e","n","g","e","r"," " >> \o ToStr(idx),
            coach |-> Get(p.currentCoachId, Get(p.bookingCoachId, <<>>)),
            seat |-> LET n == GetNo(p.currentBerthNo, p.bookingBerthNo)
                     IN IF n = AbsentNo THEN << "0" >> ELSE ToStr(n),
            berth |-> Get(p.currentBerthCode, Get(p.bookingBerthCode, <<>>)),
            status |-> Get(p.currentStatusDetails, <<>>)]]

UNKNOWN_PNR == << "U", "N", "K", "N", "O", "W", "N" >>

\* TrainPNRAPI.parse_train_response (the caller sets 'filename' afterwards)
parse_train_response(response, passenger_names, filename) ==
    IF ~response.body \/ ~response.success
    THEN [TicketData("TRAIN", Error("API failed", <<>>), filename)
             EXCEPT !.pnr = UNKNOWN_PNR]
    ELSE IF ~response.data
    THEN [TicketData("TRAIN", Error("No data", <<>>), filename)
             EXCEPT !.pnr = UNKNOWN_PNR]
    ELSE LET journey == ReadStamp(response.dateOfJourney)
             arrival == ReadStamp(response.arrivalDate)
         IN [TicketData("TRAIN", NoError, filename) EXCEPT
                !.pnr = Get(response.pnrNumber, <<>>),
                !.number = response.trainNumber,
                !.carrier = response.trainName,
                !.journey_date = journey.date,
                !.departure_time = journey.time,
                !.arrival_date = arrival.date,
                !.arrival_time = arrival.time,
                !.passengers = PassengersOf(response.passengerList,
                                            passenger_names)]

\* TicketProcessor.process_train
process_train(text, filename, lookup) ==
    LET found == extract_pnr_from_text(text)
        api_response == check_train_pnr(lookup)
    IN IF ~found.found \/ found.pnr = <<>>
       THEN TicketData("ERROR", Error("PNR not found in ticket", <<>>), filename)
       ELSE IF ~api_response.body
       THEN [TicketData("ERROR", Error("API failed for PNR", found.pnr), filename)
                EXCEPT !.pnr = found.pnr]
       ELSE parse_train_response(api_response, extract_train_passengers(text),
                                 filename)

\* most entries of the payload's passengerList
MaxPax == 2

\* per-passenger entries of the payload: every current key, only the booking
\* keys, no key at all
PassengerEntries ==
    { [currentCoachId |-> << "B", "1" >>, bookingCoachId |-> << "B", "4" >>,
       currentBerthNo |-> 23, bookingBerthNo |-> 61,
       currentBerthCode |-> << "L", "B" >>, bookingBerthCode |-> << "S", "U" >>,
       currentStatusDetails |-> << "C", "N", "F" >>],
      [currentCoachId |-> Absent, bookingCoachId |-> << "S", "2" >>,
       currentBerthNo |-> AbsentNo, bookingBerthNo |-> 7,
       currentBerthCode |-> Absent, bookingBerthCode |-> << "U", "B" >>,
       currentStatusDetails |-> Absent],
      [currentCoachId |-> Absent, bookingCoachId |-> Absent,
       currentBerthNo |-> AbsentNo, bookingBerthNo |-> AbsentNo,
       currentBerthCode |-> Absent, bookingBerthCode |-> Absent,
       currentStatusDetails |-> Absent] }

TicketPnr == <<"8","1","2","3","4","5","6","7","8","9">>

GoodStamp == Stamp(DateText("DMY", 13, 2, 2026), << "1", "6", ":", "2", "5" >>)

\* the lines of a train ticket: a header with the PNR, then passenger lines
TrainLines ==
    << <<"I","R","C","T","C"," ","T","r","a","i","n"," ","N","o"," ","1","2","3","4","5"," ","P","N","R",":"," ","8","1","2","3","4","5","6","7","8","9">>,
       <<"1","."," ","A","N","I","L"," ","K","U","M","A","R"," ","4","5"," ","M"," ","|"," ","C","N","F">>,
       <<"2","."," ","S","o","n","a","l"," ","J","a","i","n",","," ","3","0",","," ","F">>,
       <<" ","R","I","T","A","\t","S","E","N"," ">>,
       <<"D","E","V"," ","R","A","O">>,
       <<"I","R","C","T","C"," ","e","-","t","i","c","k","e","t",","," ","q","u","o","t","a"," ","G","N">> >>

\* a train ticket with the PNR and its first k passenger lines; k = -1 is a
\* ticket the PNR cannot be read from
TrainText(k) ==
    IF k < 0 THEN JoinLines(TrainLines, << 6, 2 >>)
    ELSE JoinLines(TrainLines, [i \in 1..(k + 1) |-> i])

\* the lookups that end without a usable payload
FailedLookups ==
    { NoLookup("exception"), NoLookup("status"), NoLookup("payload"),
      Lookup("payload", TRUE, FALSE, FALSE, Absent, NoStamp, NoStamp, <<>>),
      Lookup("payload", TRUE, TRUE, FALSE, Absent, NoStamp, NoStamp, <<>>) }

\* the payloads with success = true and data
GoodLookups ==
    { Lookup("payload", TRUE, TRUE, TRUE, pnrNumber, st[1], st[2], pl) :
        pnrNumber \in { Absent, TicketPnr },
        st \in { << NoStamp, GoodStamp >>, << GoodStamp, Stamp(BadDate, << "0", "5", ":", "1", "0" >>) >> },
        pl \in StringsUpTo(PassengerEntries, MaxPax) }

InitTrain ==
    /\ FlowIdle
    /\ IngestIdle
    /\ \E k \in (-1)..(MaxPax + 1), lookup \in FailedLookups \cup GoodLookups :
          inp = [text |-> TrainText(k), lookup |-> lookup]
    /\ out = <<>>
    /\ stage = 0

ProcessTrain ==
    /\ stage = 0
    /\ out' = << process_train(inp.text, "ticket.pdf", inp.lookup) >>
    /\ stage' = 1
    /\ UNCHANGED inp
    /\ UNCHANGED <<flowVars, ingestVars>>

SpecTrain == InitTrain /\ [][ProcessTrain]_vars

-----------------------------------------------------------------------------
(* FlightExtractor, PNRExtractor.extract_flight_passengers and             *)
(* TicketProcessor.process_flight / process_ticket                         *)

\* the character at index k, or no character past the end
At(s, k) == IF k >= 1 /\ k <= Len(s) THEN s[k] ELSE ""

\* \b before the word character at i, and \b after the word character at e - 1
WordStart(s, i) == ~IsWordChar(At(s, i - 1))

WordStop(s, e) == ~IsWordChar(At(s, e))

\* first index at or after i whose character is outside the class
FirstOutside(s, i, InClass(_)) ==
    With({ k \in i..Len(s) : ~InClass(s[k]) },
         LAMBDA outs : IF outs = {} THEN Len(s) + 1 ELSE Least(outs))

\* lines 331-343: the dict, in insertion order
airlines ==
    << [key |-> <<"i","n","d","i","g","o">>, airline |-> <<"I","n","d","i","G","o">>],
       [key |-> <<"6","e">>, airline |-> <<"I","n","d","i","G","o">>],
       [key |-> <<"a","i","r"," ","i","n","d","i","a"," ","e","x","p","r","e","s","s">>, airline |-> <<"A","i","r"," ","I","n","d","i","a"," ","E","x","p","r","e","s","s">>],
       [key |-> <<"a","i","r"," ","i","n","d","i","a">>, airline |-> <<"A","i","r"," ","I","n","d","i","a">>],
       [key |-> <<"v","i","s","t","a","r","a">>, airline |-> <<"V","i","s","t","a","r","a">>],
       [key |-> <<"s","p","i","c","e","j","e","t">>, airline |-> <<"S","p","i","c","e","J","e","t">>] >>

NoMatch == [ok |-> FALSE, group |-> <<>>, stop |-> 0]

\* \b(IX|I5|AI|6E|UK|SG|QP)\s*[-\s]*(\d{3,4})\b with re.IGNORECASE tried at i:
\* the digits are followed by \b, so they are a whole run of 3 or 4 digits
FlightNumberAt(s, i) ==
    IF /\ WordStart(s, i)
       /\ i + 1 <= Len(s)
       /\ StrUpper(SubSeq(s, i, i + 1)) \in
             { <<"I","X">>, <<"I","5">>, <<"A","I">>, <<"6","E">>, <<"U","K">>, <<"S","G">>, <<"Q","P">> }
    THEN With(FirstOutside(s, i + 2, LAMBDA c : IsSpace(c) \/ c = "-"), LAMBDA j :
         With(DigitEnd(s, j), LAMBDA e :
            IF e - j \in { 3, 4 } /\ WordStop(s, e)
            THEN [ok |-> TRUE,
                  group |-> SubSeq(s, i, i + 1) \o << " " >> \o SubSeq(s, j, e - 1),
                  stop |-> e]
            ELSE NoMatch))
    ELSE NoMatch

\* \b(\d{1,2}:\d{2})\s*(?:hrs|HRS)?\b tried at i
TimeAt(s, i) ==
    IF WordStart(s, i) /\ IsDigit(At(s, i))
    THEN With(DigitEnd(s, i), LAMBDA d :
            IF /\ d - i \in { 1, 2 }
               /\ At(s, d) = ":" /\ IsDigit(At(s, d + 1)) /\ IsDigit(At(s, d + 2))
               /\ \/ WordStop(s, d + 3)
                  \/ /\ d + 5 <= Len(s)
                     /\ SubSeq(s, d + 3, d + 5) \in { <<"h","r","s">>, <<"H","R","S">> }
                     /\ WordStop(s, d + 6)
            THEN [ok |-> TRUE, group |-> SubSeq(s, i, d + 2), stop |-> d + 3]
            ELSE NoMatch)
    ELSE NoMatch

\* \b(M[rs]s?\.?\s+[A-Z][A-Z\s]+?)\s*\(ADULT\) with re.IGNORECASE tried at i:
\* the lazy group ends at the first place from which only whitespace
\* separates it from "(ADULT)"
AdultAt(s, i) ==
    IF /\ WordStart(s, i)
       /\ UpperChar(At(s, i)) = "M"
       /\ UpperChar(At(s, i + 1)) \in { "R", "S" }
    THEN With(IF UpperChar(At(s, i + 2)) = "S" THEN i + 3 ELSE i + 2, LAMBDA k2 :
         With(IF At(s, k2) = "." THEN k2 + 1 ELSE k2, LAMBDA k3 :
         With(SkipSpaces(s, k3), LAMBDA a :
         With(FirstOutside(s, a + 1, LAMBDA c : IsLetter(c) \/ IsSpace(c)), LAMBDA e :
            IF /\ a > k3
               /\ IsLetter(At(s, a))
               /\ e - 1 >= a + 1
               /\ e + 6 <= Len(s)
               /\ StrUpper(SubSeq(s, e, e + 6)) = <<"(","A","D","U","L","T",")">>
            THEN [ok |-> TRUE,
                  group |-> SubSeq(s, i, Least({ b \in (a + 1)..(e - 1) :
                                \A q \in (b + 1)..(e - 1) : IsSpace(s[q]) })),
                  stop |-> e + 7]
            ELSE NoMatch))))
    ELSE NoMatch

\* \b(M[rs]\.?\s+[A-Z][a-z]+\s+[A-Z][a-z]+)\b with re.IGNORECASE tried at i
TitledAt(s, i) ==
    IF /\ WordStart(s, i)
       /\ UpperChar(At(s, i)) = "M"
       /\ UpperChar(At(s, i + 1)) \in { "R", "S" }
    THEN With(IF At(s, i + 2) = "." THEN i + 3 ELSE i + 2, LAMBDA k3 :
         With(SkipSpaces(s, k3), LAMBDA a :
         With(FirstOutside(s, a, IsLetter), LAMBDA w :
         With(SkipSpaces(s, w), LAMBDA b :
         With(FirstOutside(s, b, IsLetter), LAMBDA e :
            IF /\ a > k3 /\ w - a >= 2
               /\ b > w /\ e - b >= 2
               /\ WordStop(s, e)
            THEN [ok |-> TRUE, group |-> SubSeq(s, i, e - 1), stop |-> e]
            ELSE NoMatch)))))
    ELSE NoMatch

PatternAt(pattern, s, i) ==
    CASE pattern = "flight_number" -> FlightNumberAt(s, i)
      [] pattern = "time" -> TimeAt(s, i)
      [] pattern = "adult" -> AdultAt(s, i)
      [] pattern = "titled" -> TitledAt(s, i)

\* re.findall(pattern, text): the groups of the matches, scanning from the
\* left and resuming where a match stops
RECURSIVE FindAllFrom(_, _, _)
FindAllFrom(pattern, s, i) ==
    With({ k \in i..Len(s) : PatternAt(pattern, s, k).ok }, LAMBDA starts :
        IF starts = {} THEN <<>>
        ELSE With(PatternAt(pattern, s, Least(starts)), LAMBDA m :
                << m.group >> \o FindAllFrom(pattern, s, m.stop)))

FLIGHT_BAD_WORDS ==
    { <<"A","L","L","O","W","E","D">>, <<"I","T","E","M","S">>, <<"B","A","G","G","A","G","E">>, <<"B","O","O","K","I","N","G">>, <<"D","E","T","A","I","L","S">>,
      <<"P","A","Y","M","E","N","T">>, <<"T","I","C","K","E","T">>, <<"F","L","I","G","H","T">>, <<"T","E","R","M","I","N","A","L">>, <<"C","H","E","C","K">>,
      <<"I","N","F","O","R","M","A","T","I","O","N">>, <<"I","M","P","O","R","T","A","N","T">>, <<"C","O","N","T","A","C","T">>, <<"C","U","S","T","O","M","E","R">>, <<"S","U","P","P","O","R","T">>,
      <<"Y","A","T","R","A">>, <<"D","I","G","I">>, <<"A","V","O","I","D">> }

\* PNRExtractor._is_valid_flight_name
is_valid_flight_name(name) ==
    /\ ~\E bad \in FLIGHT_BAD_WORDS : Contains(StrUpper(name), bad)
    /\ \E i \in DOMAIN name : name[i] = " "
    /\ Len(name) >= 5 /\ Len(name) <= 40
    /\ ~\E i \in DOMAIN name : IsDigit(name[i])

\* the text begins with these characters, in this case
ReadsExactly(s, kw) == Len(kw) <= Len(s) /\ SubSeq(s, 1, Len(kw)) = kw

\* lines 271-272: whitespace runs made one space, then Mr. / Ms. / Mrs.
\* written without the dot (a match holds a dot only right after its title)
FlightName(match) ==
    With(CleanLine(match), LAMBDA name :
        IF ReadsExactly(name, <<"M","r",".">>) \/ ReadsExactly(name, <<"M","s",".">>)
        THEN SubSeq(name, 1, 2) \o SubSeq(name, 4, Len(name))
        ELSE IF ReadsExactly(name, <<"M","r","s",".">>)
        THEN SubSeq(name, 1, 3) \o SubSeq(name, 5, Len(name))
        ELSE name)

\* lines 270-279 for the matches of one pattern
RECURSIVE AddFlightPassengers(_, _)
AddFlightPassengers(passengers, matches) ==
    IF matches = <<>> THEN passengers
    ELSE With(FlightName(Head(matches)), LAMBDA name :
         With(IF /\ is_valid_flight_name(name)
                 /\ ~\E k \in DOMAIN passengers :
                        StrUpper(passengers[k].name) = StrUpper(name)
              THEN Append(passengers,
                          [name |-> name, coach |-> <<>>, seat |-> <<>>,
                           berth |-> <<>>, status |-> <<>>])
              ELSE passengers,
              LAMBDA listed : AddFlightPassengers(listed, Tail(matches))))

\* PNRExtractor.extract_flight_passengers
extract_flight_passengers(text) ==
    With(FindAllFrom("adult", text, 1), LAMBDA adults :
    With(FindAllFrom("titled", text, 1), LAMBDA titled :
    With(AddFlightPassengers(<<>>, adults), LAMBDA passengers :
         AddFlightPassengers(passengers, titled))))

\* FlightExtractor.extract_flight_details.  Lines 351-357 search for the
\* first pattern only and read m.groups() without testing m: with no match
\* the call raises AttributeError (raised = TRUE).  The route and date cells
\* (lines 369-384) come from guarded searches that cannot raise and that
\* nothing else depends on; they are left out of the record.
extract_flight_details(text) ==
    With(StrLower(text), LAMBDA t_lower :
    With({ k \in DOMAIN airlines : Contains(t_lower, airlines[k].key) }, LAMBDA hits :
    With(FindAllFrom("flight_number", text, 1), LAMBDA numbers :
    With(LabelledFrom(text, 1, 6, 6), LAMBDA pnr :
    With(FindAllFrom("time", text, 1), LAMBDA times :
        [raised |-> numbers = <<>>,
         airline |-> IF hits = {} THEN <<>> ELSE airlines[Least(hits)].airline,
         flight_number |-> IF numbers = <<>> THEN <<>> ELSE numbers[1],
         pnr |-> IF pnr.found THEN StrUpper(pnr.pnr) ELSE <<>>,
         departure_time |-> IF Len(times) >= 2 THEN times[1] ELSE <<>>,
         arrival_time |-> IF Len(times) >= 2 THEN times[2] ELSE <<>>,
         passengers |-> extract_flight_passengers(text)])))))

\* TicketProcessor.process_flight
process_flight(text, filename) ==
    With(extract_flight_details(text), LAMBDA flight_data :
        IF flight_data.raised
        THEN [TicketData("", NoError, filename) EXCEPT !.raised = TRUE]
        ELSE IF flight_data.passengers = <<>>
        THEN TicketData("ERROR", Error("No passengers found in flight ticket", <<>>),
                        filename)
        ELSE [TicketData("FLIGHT", NoError, filename) EXCEPT
                 !.carrier = flight_data.airline,
                 !.number = flight_data.flight_number,
                 !.pnr = flight_data.pnr,
                 !.departure_time = flight_data.departure_time,
                 !.arrival_time = flight_data.arrival_time,
                 !.passengers = flight_data.passengers])

\* TicketProcessor.process_ticket on a file whose OCR gives text; readable =
\* FALSE is a file that file_to_images or the OCR raises on
process_ticket(text, filename, readable, lookup) ==
    With(detect_ticket_type(text), LAMBDA ticket_type :
    With(IF ticket_type = "FLIGHT" THEN process_flight(text, filename)
         ELSE IF ticket_type = "TRAIN" THEN process_train(text, filename, lookup)
         ELSE TicketData("ERROR",
                  Error("Unknown ticket type (not a valid train/flight ticket)",
                        <<>>), filename),
         LAMBDA result :
            IF ~readable \/ result.raised
            THEN TicketData("ERROR", Error("Processing failed:", <<>>), filename)
            ELSE result))

\* most lines of a transcript handed to process_ticket
MaxFlightLines == 3

FlightLines ==
    << <<"I","n","d","i","G","o"," ","F","l","i","g","h","t"," ","6","E"," ","2","1","3","4">>,
       <<"F","l","i","g","h","t"," ","b","o","o","k","i","n","g"," ","c","o","n","f","i","r","m","e","d"," ","T","e","r","m","i","n","a","l"," ","2">>,
       <<"M","r"," ","R","a","v","i"," ","K","u","m","a","r">>,
       <<"M","s","."," ","P","R","I","Y","A"," "," ","S","H","A","H"," ","(","A","D","U","L","T",")">>,
       <<"P","N","R",":"," ","A","B","1","2","C","D">>,
       <<"D","e","p"," ","0","9",":","4","0"," ","A","r","r"," ","1","1",":","5","5"," ","h","r","s">>,
       <<"M","r"," ","F","l","i","g","h","t"," ","D","e","t","a","i","l","s">>,
       <<"I","R","C","T","C"," ","C","o","a","c","h"," ","b","e","r","t","h">> >>

InitFlight ==
    /\ FlowIdle
    /\ IngestIdle
    /\ \E fs \in StringsUpTo(DOMAIN FlightLines, MaxFlightLines) :
          inp = [text |-> JoinLines(FlightLines, fs),
                 lookup |-> NoLookup("exception")]
    /\ out = <<>>
    /\ stage = 0

ProcessTicket ==
    /\ stage = 0
    /\ out' = << process_ticket(inp.text, "ticket.pdf", TRUE, inp.lookup) >>
    /\ stage' = 1
    /\ UNCHANGED inp
    /\ UNCHANGED <<flowVars, ingestVars>>

SpecFlight == InitFlight /\ [][ProcessTicket]_vars

-----------------------------------------------------------------------------
(* GoogleSheetsManager.append_ticket_data and WeddingTicketAutomation.run  *)

\* one row of the ticket sheet: columns E (mode), H (name), K (the error
\* message of an error row), L (PNR) and M (source file)
SheetRow(mode, name, error, pnr, source) ==
    [mode |-> mode, name |-> name, error |-> error, pnr |-> pnr, source |-> source]

\* the rows append_ticket_data hands to _append_rows; none when it returns
\* False before (no passengers, or a mode that is neither TRAIN nor FLIGHT)
SheetRows(ticket_data) ==
    IF ticket_data.error # NoError
    THEN << SheetRow("ERROR", <<>>, ticket_data.error, ticket_data.pnr,
                     ticket_data.filename) >>
    ELSE IF ticket_data.mode \in { "TRAIN", "FLIGHT" }
    THEN [i \in DOMAIN ticket_data.passengers |->
             SheetRow(ticket_data.mode, ticket_data.passengers[i].name, NoError,
                      ticket_data.pnr, ticket_data.filename)]
    ELSE <<>>

\* GoogleSheetsManager.append_ticket_data on the sheet as a list of appended
\* batches; sheet_ok = FALSE is an append request that raises, which
\* _append_rows catches and answers with False
append_ticket_data(sheet, ticket_data, sheet_ok) ==
    LET rows == SheetRows(ticket_data)
    IN IF rows = <<>> \/ ~sheet_ok THEN [store |-> sheet, ok |-> FALSE]
       ELSE [store |-> Append(sheet, rows), ok |-> TRUE]

\* the documents a folder may hold, by Drive file id: the transcript the OCR
\* gives for each and the answer of the PNR lookup for it
Documents ==
    << [name |-> "flight.pdf", readable |-> TRUE, lookup |-> NoLookup("exception"),
        text |-> <<"I","n","d","i","G","o"," ","F","l","i","g","h","t"," ","6","E"," ","2","1","3","4"," ","T","e","r","m","i","n","a","l"," ","2">> \o << "\n" >>
                 \o <<"M","r"," ","R","a","v","i"," ","K","u","m","a","r">> \o << "\n" >>],
       [name |-> "train.pdf", readable |-> TRUE, text |-> TrainText(1),
        lookup |-> Lookup("payload", TRUE, TRUE, TRUE, TicketPnr, GoodStamp, GoodStamp,
                          << CHOOSE e \in PassengerEntries : e.currentCoachId # Absent >>)],
       [name |-> "waitlist.pdf", readable |-> TRUE, text |-> TrainText(0),
        lookup |-> Lookup("payload", TRUE, TRUE, TRUE, TicketPnr, GoodStamp, GoodStamp,
                          <<>>)],
       [name |-> "blurred.pdf", readable |-> TRUE, text |-> TrainText(-1),
        lookup |-> NoLookup("exception")],
       [name |-> "invoice.pdf", readable |-> TRUE, lookup |-> NoLookup("exception"),
        text |-> <<"T","a","x"," ","i","n","v","o","i","c","e"," ","G","S","T","I","N"," ","2","7","A","A","A","C","T">> \o << "\n" >>],
       [name |-> "broken.pdf", readable |-> FALSE, lookup |-> NoLookup("exception"),
        text |-> <<>>] >>

\* line 841: the record process_ticket builds for each document; it depends
\* on the document alone
Processed ==
    [file_id \in DOMAIN Documents |->
        process_ticket(Documents[file_id].text, Documents[file_id].name,
                       Documents[file_id].readable, Documents[file_id].lookup)]

\* most documents in the folder, and most invocations of run
NumDocs == 2

MaxRuns == 2

Remove(files, file_id) == SelectSeq(files, LAMBDA f : f # file_id)

\* mutant of Tally: a failed download is not caught, it ends the run
Tally_uncaught(a, entry) ==
    IF ~entry.download THEN [a EXCEPT !.pc = "summary"]
    ELSE [a EXCEPT !.success = IF entry.counted = "success" THEN @ + 1 ELSE @,
                   !.errors = IF entry.counted = "error" THEN @ + 1 ELSE @,
                   !.log = Append(@, entry),
                   !.k = @ + 1,
                   !.pc = IF a.k = Len(a.files) THEN "summary" ELSE "loop"]

\* lines 849-867: the counters after one document, and the summary after
\* the last one
Tally(a, entry) ==
    [a EXCEPT !.success = IF entry.counted = "success" THEN @ + 1 ELSE @,
              !.errors = IF entry.counted = "error" THEN @ + 1 ELSE @,
              !.log = Append(@, entry),
              !.k = @ + 1,
              !.pc = IF a.k = Len(a.files) THEN "summary" ELSE "loop"]

InitRun ==
    /\ FlowIdle
    /\ PureIdle
    /\ \E fs \in StringsUpTo(DOMAIN Documents, NumDocs) :
          /\ \A i, j \in DOMAIN fs : i # j => fs[i] # fs[j]
          /\ folder = fs
    /\ store = <<>>
    /\ automation = IdleRun

\* lines 824-833: the listing; an empty one ends the run before the summary
ListFiles ==
    /\ automation.pc = "idle"
    /\ automation' = [automation EXCEPT
                         !.files = folder,
                         !.k = 1,
                         !.runs = @ + 1,
                         !.pc = IF folder = <<>> THEN "returned" ELSE "loop"]
    /\ UNCHANGED <<folder, store>>
    /\ UNCHANGED <<flowVars, pureVars>>

\* lines 835-867: one iteration of the loop.  download = FALSE is a download
\* that raises (the except of line 862 counts an error, nothing is appended);
\* move_ok = FALSE is a move that is skipped (no processed folder configured)
\* or that raises (swallowed on line 858)
HandleDocument ==
    /\ automation.pc = "loop"
    /\ \E file_id \in { automation.files[automation.k] } :
       \E ticket_data \in { Processed[file_id] } :
       \E download \in BOOLEAN, sheet_ok \in BOOLEAN, move_ok \in BOOLEAN :
       \E appended \in { append_ticket_data(store, ticket_data, sheet_ok) } :
          LET failed == ~download \/ ticket_data.error # NoError
              moved == ~failed /\ move_ok
              entry == [file |-> file_id,
                        download |-> download,
                        sheet_ok |-> download /\ sheet_ok,
                        rows |-> IF download /\ appended.ok
                                 THEN Len(SheetRows(ticket_data)) ELSE 0,
                        counted |-> IF failed THEN "error" ELSE "success",
                        moved |-> moved]
          IN /\ store' = IF download THEN appended.store ELSE store
             /\ folder' = IF moved THEN Remove(folder, file_id) ELSE folder
             /\ automation' = Tally(automation, entry)
    /\ UNCHANGED <<flowVars, pureVars>>

\* server.py ingest_ticket (or the script run again): a new invocation
RunAgain ==
    /\ automation.pc \in { "summary", "returned" }
    /\ automation.runs < MaxRuns
    /\ automation' = [IdleRun EXCEPT !.runs = automation.runs]
    /\ UNCHANGED <<folder, store>>
    /\ UNCHANGED <<flowVars, pureVars>>

NextRun == ListFiles \/ HandleDocument

\* one invocation; every call of an iteration returns or raises, so the loop
\* keeps going
SpecRun == InitRun /\ [][NextRun]_vars /\ WF_vars(NextRun)

NextIngest == ListFiles \/ HandleDocument \/ RunAgain

SpecIngest == InitRun /\ [][NextIngest]_vars

-----------------------------------------------------------------------------
(* Properties                                                              *)

\* registry cells the last run wrote on behalf of ticket row r
RegistryWritesFor(r) == { w \in wrote : w[1] = "M" /\ w[2] = r }

\* the columns of those cells
RegistryColsFor(r) == { w[4] : w \in RegistryWritesFor(r) }

IsCommitted(r) == tickets[r].commit_status = COMMITTED

\* the status cell reads ERROR: ...
IsErrorStatus(st) ==
    Len(st) >= 6 /\ SubSeq(st, 1, 6) = <<"E","R","R","O","R",":">>

HasDuplicateMarker(r) == Contains(tickets[r].suggested, DUPLICATE)

\* some registry row carries this name, ignoring case
Listed(a) == \E m \in DOMAIN master : StrUpper(master[m].raw) = StrUpper(a)

\* C1: with runs in sequence and no write failing, the registry writes for a
\* ticket row are issued by exactly one run of step 2: never by two, and a
\* row is COMMITTED exactly when one run has issued them.
C1_CommitOnce ==
    \A r \in DOMAIN tickets :
        /\ nCommits[r] <= 1
        /\ IsCommitted(r) <=> nCommits[r] = 1

\* a later run of step 2 has passed over a row an earlier run committed
C1_Witness ==
    \E r \in DOMAIN tickets :
        /\ lastOp = "step2"
        /\ IsCommitted(r)
        /\ nCommits[r] = 1
        /\ RegistryWritesFor(r) = {}

\* C2: a COMMITTED row keeps that status, and no run writes its suggested
\* name, score, approved name or status cell, or registry cells for it.
C2_CommittedTerminal ==
    [][\A r \in DOMAIN tickets :
          IsCommitted(r) =>
             /\ tickets'[r].commit_status = COMMITTED
             /\ \A c \in {"N", "O", "P", "Q"} : TicketCell(r, c) \notin wrote'
             /\ \A w \in wrote' : ~(w[1] = "M" /\ w[2] = r)]_vars

\* C3: with two overlapping requests, the registry writes for a ticket row
\* are issued by at most one of them.
C3_Serialized == \A r \in DOMAIN tickets : nCommits[r] <= 1

\* C4: a row whose status reads ERROR:<reason> never leaves that state.
C4_ErrorSink ==
    [][\A r \in DOMAIN tickets :
          IsErrorStatus(tickets[r].commit_status)
             => IsErrorStatus(tickets'[r].commit_status)]_vars

\* C5: a row whose suggestion is a duplicate marker has no approved name, is
\* not COMMITTED and has had no registry write for as long as no human has
\* written a non-empty approved name for it.
C5_DuplicateNeedsHuman ==
    \A r \in DOMAIN tickets :
        HasDuplicateMarker(r) /\ ~human[r] =>
            /\ tickets[r].approved = Empty
            /\ ~IsCommitted(r)
            /\ nCommits[r] = 0

\* step 2 has run over a duplicate-marked row nobody resolved
C5_Witness ==
    \E r \in DOMAIN tickets :
        /\ lastOp = "step2"
        /\ HasDuplicateMarker(r)
        /\ ~human[r]
        /\ tickets[r].approved = Empty

\* a duplicate-marked row is committed once a human supplied the name
C5_Resolved ==
    \E r \in DOMAIN tickets : HasDuplicateMarker(r) /\ human[r] /\ IsCommitted(r)

\* C6: after a run of step 2, a row the run marked COMMITTED has an approved
\* name some registry row carries (ignoring case); a row with an approved
\* name no registry row carries reads ERROR: '<name>' not found, and the run
\* wrote no registry cell for it.
C6_CommitOnlyListed ==
    lastOp = "step2" =>
        \A r \in DOMAIN tickets :
            LET a == tickets[r].approved
            IN /\ TicketCell(r, "Q") \in wrote /\ IsCommitted(r) => Listed(a)
               /\ RegistryWritesFor(r) # {} => IsCommitted(r) /\ Listed(a)
               /\ (a # Empty /\ tickets[r].mode # "ERROR" /\ ~IsCommitted(r)
                     /\ ~Listed(a))
                    => /\ tickets[r].commit_status = NotFoundStatus(a)
                       /\ TicketCell(r, "Q") \in wrote
                       /\ RegistryWritesFor(r) = {}

\* step 2 has turned down an approved name the registry does not carry
C6_Witness ==
    \E r \in DOMAIN tickets :
        /\ lastOp = "step2"
        /\ tickets[r].approved = Unlisted
        /\ tickets[r].commit_status = NotFoundStatus(Unlisted)
        /\ nCommits[r] = 0

\* step 2 has committed an approved name that differs from the registry's in case
C6_CaseInsensitive ==
    \E r \in DOMAIN tickets :
        /\ TicketCell(r, "Q") \in wrote
        /\ IsCommitted(r)
        /\ tickets[r].approved = StrLower(MasterRaw(1))

\* the date as one number, year, month and day in decimal
DateNumber(dt) == dt.y * 10000 + dt.m * 100 + dt.d

\* C7: a commit of a row whose journey date reads as the date d writes the
\* DEPARTURE block (AE..AJ) if d is 2026-02-13 or later and the ARRIVAL block
\* (I..N) if d is earlier.
C7_RoutingByCutoff ==
    \A r \in DOMAIN tickets :
        LET dt == ParseDate(tickets[r].journey_date)
        IN RegistryWritesFor(r) # {} /\ dt.ok =>
              /\ DateNumber(dt) >= 20260213
                    <=> RegistryColsFor(r) = Range(DepartureCols)
              /\ DateNumber(dt) < 20260213
                    <=> RegistryColsFor(r) = Range(ArrivalCols)

\* a row dated on the cutoff day itself was committed to the DEPARTURE block
C7_Witness ==
    \E r \in DOMAIN tickets :
        /\ tickets[r].journey_date = DateText("ISO", 2026, 2, 13)
        /\ RegistryColsFor(r) = Range(DepartureCols)

\* the registry rows at or above the threshold for ticket row r
Candidates(r) ==
    { i \in DOMAIN master :
        tickets[r].partial[i] >= 85 \/ tickets[r].token_sort[i] >= 85 }

CandidateScore(r, i) ==
    IF tickets[r].partial[i] >= tickets[r].token_sort[i]
    THEN tickets[r].partial[i] ELSE tickets[r].token_sort[i]

\* a candidate no other candidate outscores
IsTop(r, i) ==
    i \in Candidates(r)
        /\ \A j \in Candidates(r) : CandidateScore(r, j) <= CandidateScore(r, i)

\* the top two scores differ by at most 3
NearTie(r) ==
    \E i, j \in Candidates(r) :
        /\ i # j
        /\ IsTop(r, i)
        /\ CandidateScore(r, i) - CandidateScore(r, j) <= 3

\* C8: what step 1 writes as the suggestion of a row it matches: nothing
\* with no candidate, the candidate's name with one, a duplicate marker when
\* the top two of several differ by at most 3, else the top candidate's name.
C8_MatchResolution ==
    lastOp = "step1" =>
        \A r \in DOMAIN tickets :
            TicketCell(r, "N") \in wrote =>
                LET sg == tickets[r].suggested
                    n == Cardinality(Candidates(r))
                IN /\ n = 0 => sg = Empty
                   /\ n = 1 => \E i \in Candidates(r) : sg = master[i].raw
                   /\ n >= 2 /\ NearTie(r)
                        => /\ Contains(sg, DUPLICATE)
                           /\ \A i \in DOMAIN master : sg # master[i].raw
                   /\ n >= 2 /\ ~NearTie(r)
                        => \E i \in Candidates(r) :
                              IsTop(r, i) /\ sg = master[i].raw

\* step 1 has flagged a row whose two candidates score 92 and 90
C8_Witness ==
    \E r \in DOMAIN tickets :
        /\ lastOp = "step1"
        /\ { CandidateScore(r, i) : i \in Candidates(r) } = {92, 90}
        /\ Cardinality(Candidates(r)) = 2
        /\ HasDuplicateMarker(r)

\* C9: normalize_name applied to its own result returns that result.
C9_Idempotent == stage = 2 => out[2] = out[1]

\* keywords of a list found in the lowercased transcript
Hits(kws, t) == { w \in Range(kws) : Contains(t, w) }

\* C10: detect_ticket_type is UNKNOWN for a transcript with a non-ticket
\* marker and no ticket-domain marker; otherwise FLIGHT iff the flight score
\* exceeds the train score and is at least 2, otherwise TRAIN iff the train
\* score is positive, otherwise UNKNOWN.
C10_Classification ==
    stage = 1 =>
        LET t == StrLower(inp)
            shortCircuit == Hits(non_ticket_words, t) # {}
                               /\ Hits(ticket_words, t) = {}
            fs == Cardinality(Hits(flight_kw, t))
            ts == Cardinality(Hits(train_kw, t))
            res == out[1]
        IN /\ shortCircuit => res = "UNKNOWN"
           /\ ~shortCircuit => /\ res = "FLIGHT" <=> (fs > ts /\ fs >= 2)
                               /\ res = "TRAIN" <=> (~(fs > ts /\ fs >= 2) /\ ts > 0)
                               /\ res = "UNKNOWN" <=> (~(fs > ts /\ fs >= 2) /\ ts = 0)
           /\ res \in {"FLIGHT", "TRAIN", "UNKNOWN"}

\* a transcript reading PNR, Coach, berth was classified TRAIN
C10_Witness ==
    /\ stage = 1
    /\ inp = Transcript(<<1, 3, 4>>)
    /\ out = <<"TRAIN">>

\* invoice vocabulary with a train keyword and no ticket marker is UNKNOWN
C10_InvoiceWithCoach ==
    /\ stage = 1
    /\ inp = Transcript(<<5, 3>>)
    /\ out = <<"UNKNOWN">>


\* a run of ten digits, any two neighbours parted by whitespace, at i..j
IsSpacedRun(t, i, j) ==
    /\ IsDigit(t[i]) /\ IsDigit(t[j])
    /\ \A k \in i..j : IsDigit(t[k]) \/ IsSpace(t[k])
    /\ \A k \in i..(j - 1) : ~(IsDigit(t[k]) /\ IsDigit(t[k + 1]))
    /\ Cardinality({ k \in i..j : IsDigit(t[k]) }) = 10

\* a PNR label at i, then separators, then a token of letters and digits at
\* j..k that ends at a word boundary
IsLabelledToken(t, i, j, k) ==
    /\ i + 3 <= j /\ j <= k
    /\ StrUpper(SubSeq(t, i, i + 2)) = << "P", "N", "R" >>
    /\ \A q \in (i + 3)..(j - 1) : t[q] \in { ":", "=" } \/ IsSpace(t[q])
    /\ \A q \in j..k : IsAlnum(t[q])
    /\ (k = Len(t) \/ ~IsWordChar(t[k + 1]))
    /\ k - j + 1 \in 6..10

\* ten digits at i that stand alone as a word and carry no excluded prefix
IsBareCandidate(t, i) ==
    /\ i + 9 <= Len(t)
    /\ \A q \in i..(i + 9) : IsDigit(t[q])
    /\ (i = 1 \/ ~IsWordChar(t[i - 1]))
    /\ (i + 9 = Len(t) \/ ~IsWordChar(t[i + 10]))
    /\ SubSeq(t, i, i + 2) \notin ExcludedPrefixes

\* C11: extract_pnr_from_text returns the ten digits of the leftmost
\* whitespace-separated run if there is one; failing that the upper-cased
\* token of the leftmost PNR label followed by a 6-10 character token;
\* failing that the leftmost stand-alone 10-digit number without an excluded
\* prefix; and None when there is none of the three.
C11_RuleOrder ==
    stage = 1 =>
        LET t == inp
            res == out[1]
            P == DOMAIN t
            HasLabel(i) ==
                i + 2 <= Len(t)
                    /\ StrUpper(SubSeq(t, i, i + 2)) = << "P", "N", "R" >>
            S1 == { i \in P : IsDigit(t[i]) /\ \E j \in i..Len(t) :
                                                  IsSpacedRun(t, i, j) }
            S2 == { i \in P : HasLabel(i) /\ \E j \in (i + 3)..Len(t) :
                        IsAlnum(t[j]) /\ \E k \in j..Len(t) :
                                            IsLabelledToken(t, i, j, k) }
            S3 == { i \in P : IsBareCandidate(t, i) }
            first(S) == CHOOSE i \in S : \A q \in S : i <= q
        IN /\ S1 # {} =>
                \E j \in first(S1)..Len(t) :
                    /\ IsSpacedRun(t, first(S1), j)
                    /\ res = SomePnr(SelectSeq(SubSeq(t, first(S1), j), IsDigit))
           /\ S1 = {} /\ S2 # {} =>
                \E j \in first(S2)..Len(t) : \E k \in j..Len(t) :
                    /\ IsLabelledToken(t, first(S2), j, k)
                    /\ res = SomePnr(StrUpper(SubSeq(t, j, k)))
           /\ S1 = {} /\ S2 = {} /\ S3 # {} =>
                res = SomePnr(SubSeq(t, first(S3), first(S3) + 9))
           /\ S1 = {} /\ S2 = {} /\ S3 = {} => res = NoPnr

\* a transcript with a labelled token before a spaced run: the spaced run won
C11_Witness ==
    /\ stage = 1
    /\ inp = JoinLines(PnrLines, << 2, 1 >>)
    /\ out = << SomePnr(<<"6","5","6","2","5","2","6","4","9","6">>) >>

\* the excluded 2026021399 was passed over for the number after it
C11_ExcludedSkipped ==
    /\ stage = 1
    /\ inp = JoinLines(PnrLines, << 3, 4 >>)
    /\ out = << SomePnr(<<"8","1","2","3","4","5","6","7","8","9">>) >>

\* a transcript holding only excluded numbers yields None
C11_OnlyExcluded ==
    /\ stage = 1
    /\ inp = JoinLines(PnrLines, << 3 >>)
    /\ out = << NoPnr >>

\* C19: the list extract_train_passengers returns holds no empty name and no
\* name twice, holds exactly the cleaned names the lines of the transcript
\* offer, and lists them in the order of their first lines.
C19_DistinctInOrder ==
    stage = 1 =>
        LET names == out[1]
            lines == TranscriptLines(inp)
            firstLine(nm) ==
                CHOOSE i \in DOMAIN lines :
                    /\ LineName(lines[i]) = nm
                    /\ \A q \in 1..(i - 1) : LineName(lines[q]) # nm
        IN /\ \A k \in DOMAIN names : names[k] # <<>>
           /\ \A k, q \in DOMAIN names : k # q => names[k] # names[q]
           /\ Range(names) = { LineName(lines[i]) : i \in DOMAIN lines } \ { <<>> }
           /\ \A k, q \in DOMAIN names :
                 k < q => firstLine(names[k]) < firstLine(names[q])

\* three lines, the first and the last offering the same cleaned name
C19_Witness ==
    /\ stage = 1
    /\ inp = JoinLines(PaxLines, << 1, 3, 2 >>)
    /\ out = << << <<"A","n","i","l"," ","K","u","m","a","r">>, <<"S","o","n","a","l"," ","J","a","i","n">> >> >>

\* the lookup returned a payload with success = true and data
LookupSucceeded(lookup) ==
    lookup.kind = "payload" /\ lookup.body /\ lookup.success /\ lookup.data

\* C12: after a successful lookup the record has one Passenger per entry of
\* passengerList, in order; Passenger i is named by the i-th extracted name,
\* or "Passenger i" (counting from 1) when there is none, and its coach,
\* seat, berth and status are those of entry i; extracted names beyond the
\* list are dropped.
C12_PositionalMerge ==
    stage = 1 /\ extract_pnr_from_text(inp.text).found
              /\ LookupSucceeded(inp.lookup) =>
        LET pax == out[1].passengers
            entries == inp.lookup.passengerList
            names == extract_train_passengers(inp.text)
            Of(e, first, second) ==
                IF e[first] # Absent THEN e[first]
                ELSE IF e[second] # Absent THEN e[second]
                ELSE <<>>
            SeatOf(e) ==
                IF e.currentBerthNo # AbsentNo THEN e.currentBerthNo
                ELSE IF e.bookingBerthNo # AbsentNo THEN e.bookingBerthNo
                ELSE 0
        IN /\ Len(pax) = Len(entries)
           /\ \A i \in DOMAIN entries :
                 /\ i <= Len(names) => pax[i].name = names[i]
                 /\ i > Len(names) =>
                       pax[i].name = <<"P","a","s","s","e","n","g","e","r"," ">> \o ToStr(i)
                 /\ pax[i].coach = Of(entries[i], "currentCoachId", "bookingCoachId")
                 /\ pax[i].berth =
                       Of(entries[i], "currentBerthCode", "bookingBerthCode")
                 /\ pax[i].status =
                       Of(entries[i], "currentStatusDetails", "currentStatusDetails")
                 /\ pax[i].seat = ToStr(SeatOf(entries[i]))
           /\ \A i \in DOMAIN names :
                 i > Len(entries) => \A k \in DOMAIN pax : pax[k].name # names[i]

\* one extracted name, two entries: the second passenger is a placeholder
C12_Witness ==
    /\ stage = 1
    /\ inp.text = TrainText(1)
    /\ LookupSucceeded(inp.lookup)
    /\ Len(out[1].passengers) = 2
    /\ out[1].passengers[1].name = <<"A","n","i","l"," ","K","u","m","a","r">>
    /\ out[1].passengers[2].name = <<"P","a","s","s","e","n","g","e","r"," ","2">>

\* three extracted names, one entry: the second and third names are dropped
C12_ExtrasDropped ==
    /\ stage = 1
    /\ inp.text = TrainText(3)
    /\ LookupSucceeded(inp.lookup)
    /\ Len(out[1].passengers) = 1
    /\ out[1].passengers[1].name = <<"A","n","i","l"," ","K","u","m","a","r">>

\* C15: when the lookup for the extracted identifier p fails (the call
\* raises, the status is not 200, the payload says success = false or holds
\* no data), process_train returns a record with a reason and with p as its
\* identifier.
C15_FailureKeepsIdentifier ==
    stage = 1 /\ extract_pnr_from_text(inp.text).found
              /\ ~LookupSucceeded(inp.lookup) =>
        /\ ~out[1].raised
        /\ out[1].error # NoError
        /\ out[1].pnr = extract_pnr_from_text(inp.text).pnr

\* C18: a record process_train returns with mode TRAIN and no error carries
\* a non-empty booking identifier.
C18_TrainHasIdentifier ==
    stage = 1 /\ out[1].mode = "TRAIN" /\ out[1].error = NoError =>
        out[1].pnr # <<>>

\* C14: for a transcript classified FLIGHT that holds a valid passenger
\* name, process_ticket returns a FLIGHT record without error, whichever of
\* carrier, flight number, identifier and times the text lacks; it returns
\* an ERROR record for a FLIGHT transcript only when there is no passenger.
C14_OptionalFieldsNeverFail ==
    stage = 1 /\ detect_ticket_type(inp.text) = "FLIGHT" =>
        /\ extract_flight_passengers(inp.text) # <<>> =>
              /\ out[1].mode = "FLIGHT"
              /\ out[1].error = NoError
              /\ out[1].passengers = extract_flight_passengers(inp.text)
        /\ out[1].mode = "ERROR" => extract_flight_passengers(inp.text) = <<>>

\* a document classified TRAIN with no identifier to extract, or classified
\* TRAIN or FLIGHT whose record holds no passenger
NothingExtracted(file_id) ==
    LET text == Documents[file_id].text
        kind == detect_ticket_type(text)
    IN /\ Documents[file_id].readable
       /\ \/ kind = "TRAIN" /\ ~extract_pnr_from_text(text).found
          \/ kind \in { "TRAIN", "FLIGHT" } /\ Processed[file_id].passengers = <<>>

\* C13: a downloaded document with no identifier (TRAIN) or no passengers
\* (TRAIN or FLIGHT) has a record with an error and its filename, is counted
\* as an error, and, when the sheet accepts the append, has its ERROR row in
\* the store: it is never a success, never without a row.
C13_NoSilentDrop ==
    \A i \in DOMAIN automation.log :
        LET e == automation.log[i]
        IN e.download /\ NothingExtracted(e.file) =>
              /\ Processed[e.file].error # NoError
              /\ Processed[e.file].filename = Documents[e.file].name
              /\ e.counted = "error"
              /\ e.sheet_ok => e.rows >= 1

\* number of log entries counted as c
CountOf(log, c) == Cardinality({ i \in DOMAIN log : log[i].counted = c })

C16_Counts ==
    LET a == automation
    IN /\ a.pc = "loop" => Len(a.log) = a.k - 1
       /\ a.pc = "summary" => Len(a.log) = Len(a.files)
       /\ a.pc = "returned" => a.files = <<>>
       /\ \A i \in DOMAIN a.log : a.log[i].file = a.files[i]
       /\ a.success = CountOf(a.log, "success")
       /\ a.errors = CountOf(a.log, "error")
       /\ a.success + a.errors = Len(a.log)

\* C16: every document before the current one is logged once, in listing
\* order, and counted once as a success or as an error, whatever failed for
\* it; at the summary that holds for every listed document, so success +
\* errors is the number of listed documents; and a loop that was started
\* reaches the summary.
C16_FailureIsolation ==
    []C16_Counts /\ (automation.pc = "loop" ~> automation.pc = "summary")

\* a run ended with its first document not downloaded and a later one done
C16_Witness ==
    /\ automation.pc = "summary"
    /\ automation.success + automation.errors = Len(automation.files)
    /\ \E i, j \in DOMAIN automation.log :
          /\ i < j
          /\ ~automation.log[i].download
          /\ automation.log[j].counted = "success"
          /\ automation.log[j].rows >= 1

\* the source files of the batches appended so far
Sources(sheet) == [b \in DOMAIN sheet |-> sheet[b][1].source]

\* C17: over any number of runs the store holds at most one batch of rows
\* (data rows or the ERROR row) per document.
C17_OncePerDocument ==
    \A b, c \in DOMAIN store : b # c => Sources(store)[b] # Sources(store)[c]

\* the candidates of match_against_master for ticket row r and their scores
Ranked(r) == match_against_master(tickets[r], read_master_names(master)).matches

\* C20: for a ticket row with a name, match_against_master returns each
\* registry entry whose score max(partial, token sort) is at least 85 once,
\* with that score, and no other entry; the list is sorted by score, highest
\* first; the best score is the first candidate's score, or 0 for no candidate.
C20_ThresholdAndOrder ==
    \A r \in DOMAIN tickets :
        LET ticket == tickets[r]
            master_names == read_master_names(master)
            res == match_against_master(ticket, master_names)
            score(e) == IF ticket.partial[e.row_no - 1] >= ticket.token_sort[e.row_no - 1]
                        THEN ticket.partial[e.row_no - 1]
                        ELSE ticket.token_sort[e.row_no - 1]
            kept(e) == { k \in DOMAIN res.matches : res.matches[k].row_no = e.row_no }
        IN ticket.name # Empty =>
              /\ \A i \in DOMAIN master_names :
                    LET e == master_names[i]
                    IN /\ score(e) >= 85 => Cardinality(kept(e)) = 1
                       /\ score(e) < 85 => kept(e) = {}
                       /\ \A k \in kept(e) :
                             res.matches[k].score = score(e) /\ res.matches[k].raw = e.raw
              /\ \A k \in DOMAIN res.matches :
                    \E i \in DOMAIN master_names :
                        master_names[i].row_no = res.matches[k].row_no
              /\ \A k \in 1..(Len(res.matches) - 1) :
                    res.matches[k].score >= res.matches[k + 1].score
              /\ res.best_score = IF res.matches = <<>> THEN 0 ELSE res.matches[1].score

\* step 1 ran on a registry with an entry below 85, one at exactly 85 and a
\* higher one listed after it
C20_Witness ==
    /\ lastOp = "step1"
    /\ Len(Ranked(1)) = 2
    /\ Ranked(1)[2].score = 85
    /\ Ranked(1)[1].score > 85
    /\ Ranked(1)[1].row_no > Ranked(1)[2].row_no
    /\ Len(read_master_names(master)) = 3
\* C21: a row whose mode is ERROR is never advanced: no run of step 1 or
\* step 2 writes its suggestion, score, approved name or status cell or a
\* registry cell for it, whatever a human has typed as its approved name.
C21_ErrorRowsStay ==
    \A r \in DOMAIN tickets :
        tickets[r].mode = "ERROR" =>
            /\ tickets[r].suggested = Empty
            /\ tickets[r].score = <<>>
            /\ tickets[r].commit_status = Empty
            /\ tickets[r].approved # Empty => human[r]
            /\ nCommits[r] = 0
            /\ RegistryWritesFor(r) = {}
            /\ \A c \in {"N", "O", "P", "Q"} : TicketCell(r, c) \notin wrote

\* step 2 has run over a named ERROR row whose approved-name cell a human
\* filled with a registry name
C21_Witness ==
    \E r \in DOMAIN tickets :
        /\ lastOp = "step2"
        /\ tickets[r].mode = "ERROR"
        /\ tickets[r].name # Empty
        /\ human[r]
        /\ tickets[r].approved = StrLower(MasterRaw(1))
        /\ tickets[r].commit_status = Empty

\* C22: a manual override is never overwritten: a run of step 2 writes the
\* approved-name cell of a row only if the cell was empty and the suggestion
\* was non-empty and no duplicate marker, and what it writes is the
\* suggestion; a non-empty approved name is the same after every run of
\* step 1 and of step 2, also when the run of step 1 changes the suggestion.
C22_OverrideKept ==
    [][\A r \in DOMAIN tickets :
          /\ (lastOp' \in {"step1", "step2"} /\ tickets[r].approved # Empty)
                => tickets'[r].approved = tickets[r].approved
          /\ TicketCell(r, "P") \in wrote'
                => /\ lastOp' = "step2"
                   /\ tickets[r].approved = Empty
                   /\ tickets[r].suggested # Empty
                   /\ ~HasDuplicateMarker(r)
                   /\ tickets'[r].approved = tickets[r].suggested]_vars

\* step 2 has run over a row whose approved name a human typed and whose
\* suggestion, written by step 1, is another name: the typed name is there
C22_Witness ==
    \E r \in DOMAIN tickets :
        /\ lastOp = "step2"
        /\ human[r]
        /\ tickets[r].suggested = MasterRaw(1)
        /\ tickets[r].approved = Unlisted
        /\ TicketCell(r, "P") \notin wrote

\* step 1 has written a new suggestion next to a typed approved name
C22_SuggestionChanged ==
    \E r \in DOMAIN tickets :
        /\ lastOp = "step1"
        /\ TicketCell(r, "N") \in wrote
        /\ tickets[r].suggested = MasterRaw(1)
        /\ tickets[r].approved = Unlisted

\* C23: the registry cells a run of step 2 writes for a ticket row it
\* commits are exactly six, all in the sheet row of the registry entry that
\* carries the approved name and all in one block (I..N or AE..AJ); no
\* registry cell the run did not write changes, and no name, place or venue.
C23_OneBlockOneRow ==
    [][lastOp' = "step2" =>
          /\ \A r \in DOMAIN tickets :
                LET ws == { w \in wrote' : w[1] = "M" /\ w[2] = r }
                IN ws # {} =>
                      /\ Cardinality(ws) = 6
                      /\ \E m \in DOMAIN master :
                            /\ StrUpper(master[m].raw)
                                  = StrUpper(tickets'[r].approved)
                            /\ \A w \in ws : w[3] = m + 1
                      /\ \/ { w[4] : w \in ws } = Range(ArrivalCols)
                         \/ { w[4] : w \in ws } = Range(DepartureCols)
          /\ \A m \in DOMAIN master :
                /\ master'[m].raw = master[m].raw
                /\ master'[m].place = master[m].place
                /\ master'[m].venue = master[m].venue
                /\ \A c \in Cols :
                      master'[m].cells[c] # master[m].cells[c]
                         => \E w \in wrote' :
                               w[1] = "M" /\ w[3] = m + 1 /\ w[4] = c]_vars

\* a commit has filled the ARRIVAL block of the second registry entry: its
\* DEPARTURE block and the first entry are as they were
C23_Witness ==
    \E r \in DOMAIN tickets :
        /\ lastOp = "step2"
        /\ Cardinality(RegistryWritesFor(r)) = 6
        /\ RegistryColsFor(r) = Range(ArrivalCols)
        /\ \A w \in RegistryWritesFor(r) : w[3] = 3
        /\ master[2].cells["J"] = tickets[r].mode
        /\ \A c \in Range(DepartureCols) : master[2].cells[c] = EmptyCell(c)
        /\ master[1] = MasterRow(1)

\* the value the last run wrote into the time column of the block it
\* committed ticket row r to (column AJ or N of the registry row)
WrittenTime(r, col) ==
    LET w == CHOOSE x \in RegistryWritesFor(r) : x[4] = col
    IN master[w[3] - 1].cells[col]

\* C24: the time a commit writes follows the route with fallback: into AJ
\* goes the departure time, or the arrival time when the departure time is
\* empty; into N goes the arrival time, or the departure time when the
\* arrival time is empty; it is empty only when both times are empty.
C24_TimeFallback ==
    \A r \in DOMAIN tickets :
        LET dep == tickets[r].departure_time
            arr == tickets[r].arrival_time
        IN /\ RegistryColsFor(r) = Range(DepartureCols) =>
                /\ dep # "" => WrittenTime(r, "AJ") = dep
                /\ dep = "" => WrittenTime(r, "AJ") = arr
           /\ RegistryColsFor(r) = Range(ArrivalCols) =>
                /\ arr # "" => WrittenTime(r, "N") = arr
                /\ arr = "" => WrittenTime(r, "N") = dep
           /\ \A w \in RegistryWritesFor(r) :
                 (w[4] \in {"N", "AJ"} /\ master[w[3] - 1].cells[w[4]] = "")
                    => dep = "" /\ arr = ""

\* a DEPARTURE commit of a row without a departure time wrote its arrival time
C24_Witness ==
    \E r \in DOMAIN tickets :
        /\ RegistryColsFor(r) = Range(DepartureCols)
        /\ tickets[r].departure_time = ""
        /\ tickets[r].arrival_time # ""
        /\ WrittenTime(r, "AJ") = tickets[r].arrival_time

\* an ARRIVAL commit of a row without an arrival time wrote its departure time
C24_ArrivalFallback ==
    \E r \in DOMAIN tickets :
        /\ RegistryColsFor(r) = Range(ArrivalCols)
        /\ tickets[r].arrival_time = ""
        /\ tickets[r].departure_time # ""
        /\ WrittenTime(r, "N") = tickets[r].departure_time

\* a commit of a row with neither time wrote an empty time
C24_NoTime ==
    \E r \in DOMAIN tickets :
        /\ RegistryWritesFor(r) # {}
        /\ tickets[r].arrival_time = ""
        /\ tickets[r].departure_time = ""
        /\ \E c \in {"N", "AJ"} :
              c \in RegistryColsFor(r) /\ WrittenTime(r, c) = ""

\* the journey date of the row is empty or is no date
Undated(r) ==
    tickets[r].journey_date = EmptyDate \/ ~ParseDate(tickets[r].journey_date).ok

\* C26: a run of step 2 that finds a row with an approved name the registry
\* carries and a journey date that is empty or cannot be parsed commits it:
\* the status becomes COMMITTED, not ERROR, and the six cells go to the
\* ARRIVAL block, never to the DEPARTURE block.
C26_UndatedArrives ==
    [][lastOp' = "step2" =>
          \A r \in DOMAIN tickets :
             (/\ Undated(r)
              /\ tickets[r].mode # "ERROR"
              /\ ~IsCommitted(r)
              /\ tickets'[r].approved # Empty
              /\ Listed(tickets'[r].approved))
                => /\ tickets'[r].commit_status = COMMITTED
                   /\ ~IsErrorStatus(tickets'[r].commit_status)
                   /\ { w[4] : w \in { x \in wrote' : x[1] = "M" /\ x[2] = r } }
                         = Range(ArrivalCols)]_vars

\* a row whose journey date is no date was committed to the ARRIVAL block
C26_Witness ==
    \E r \in DOMAIN tickets :
        /\ lastOp = "step2"
        /\ tickets[r].journey_date = BadDate
        /\ IsCommitted(r)
        /\ RegistryColsFor(r) = Range(ArrivalCols)

\* a row without a journey date was committed to the ARRIVAL block
C26_EmptyDate ==
    \E r \in DOMAIN tickets :
        /\ lastOp = "step2"
        /\ tickets[r].journey_date = EmptyDate
        /\ IsCommitted(r)
        /\ RegistryColsFor(r) = Range(ArrivalCols)

\* C27: a document is moved to the processed folder only if its record has
\* no error and at least one of its rows was appended to the store; a
\* document none of whose rows was appended is neither moved nor counted as
\* a success.
C27_MoveOnlyAfterAppend ==
    \A i \in DOMAIN automation.log :
        LET e == automation.log[i]
        IN /\ e.moved => Processed[e.file].error = NoError /\ e.rows >= 1
           /\ e.rows = 0 => ~e.moved /\ e.counted # "success"

\* the half of C27 the run does keep: no document with an error record moves
C27_ErrorsStay ==
    \A i \in DOMAIN automation.log :
        automation.log[i].moved => Processed[automation.log[i].file].error = NoError

\* a flight ticket with passengers whose append the sheet refused was
\* counted as a success and moved
C27_FailedAppendMoved ==
    \E i \in DOMAIN automation.log :
        LET e == automation.log[i]
        IN /\ e.file = 1
           /\ e.download /\ ~e.sheet_ok
           /\ e.rows = 0
           /\ e.counted = "success"
           /\ e.moved
           /\ store = <<>>

\* the status updates of the request that read COMMITTED
CommitsPending(i) ==
    { inv[i].status_updates[j].row :
        j \in { q \in DOMAIN inv[i].status_updates :
                  inv[i].status_updates[q].status = COMMITTED } }

\* C25: fields are written before status: a row whose status reads
\* COMMITTED has had its six registry cells written, also after a batch
\* write failed; a request about to issue the status write has had the six
\* cells of every row it marks COMMITTED written; and a status write is
\* issued only right after the registry write step returned, never after it
\* failed.
C25_FieldsBeforeStatus ==
    /\ [](\A r \in DOMAIN tickets : IsCommitted(r) => nCommits[r] >= 1)
    /\ [](\A i \in Invocations :
             inv[i].pc = "status" => \A r \in CommitsPending(i) : nCommits[r] >= 1)
    /\ [][lastOp' \in {"status", "status_failed"} => lastOp = "master"]_vars
    /\ [][lastOp = "master_failed" =>
             /\ Quiet
             /\ \A r \in DOMAIN tickets : ~IsCommitted(r) => ~IsCommitted(r)']_vars

\* the registry write failed after three cells of a row: the run is over
\* and the row is not COMMITTED
C25_Witness ==
    \E r \in DOMAIN tickets :
        /\ lastOp = "master_failed"
        /\ Cardinality(RegistryWritesFor(r)) = 3
        /\ nCommits[r] = 0
        /\ tickets[r].commit_status = Empty
        /\ Quiet

\* the status write failed after the first of two rows: both rows have
\* their cells, one reads COMMITTED
C25_StatusFailed ==
    /\ lastOp = "status_failed"
    /\ \A r \in DOMAIN tickets : nCommits[r] = 1
    /\ IsCommitted(1)
    /\ ~IsCommitted(2)

\* a row was marked COMMITTED by a request that followed a failed one
C25_Retried ==
    \E r \in DOMAIN tickets :
        /\ lastOp = "status"
        /\ IsCommitted(r)
        /\ nCommits[r] = 2

\* a status write with no registry write before it: the one row of the
\* request's lists has a name the registry does not carry
C25_OnlyStatus ==
    /\ lastOp = "status"
    /\ \A r \in DOMAIN tickets : nCommits[r] = 0
    /\ \E r \in DOMAIN tickets : IsErrorStatus(tickets[r].commit_status)

====
